---- MODULE Spec2Model ----
(***************************************************************************)
(* A model of the canonical LR(1) parser generator jgraydus/parser:        *)
(* the symbol table (symbol.rs), the grammar (grammar.rs), FIRST sets      *)
(* (first_and_follow.rs), the canonical collection of LR(1) item sets      *)
(* (canonical_collection.rs, lr1_item.rs), the ACTION/GOTO tables          *)
(* (parse_tables.rs) and the shift-reduce driver (parser.rs).              *)
(***************************************************************************)
EXTENDS Integers, Sequences, FiniteSets, TLC

VARIABLES
    db,           \* SymbolDb under construction (symbol.rs)
    db_call,      \* the last registration call: [op, label]
    db_panic,     \* panic message of the last registration call, "" if none
    registered,   \* labels in the order their registration succeeded
    grammar,      \* the Grammar handed to Parser::new
    pc,           \* where Parser::new stands: "first", "follow", "seed", "cc",
                  \* "tables", "built" (it returned) or "failed" (it panicked)
    panic,        \* panic message of Parser::new, "" if none
    first,        \* first_and_follow.rs first(): the map under construction
    follow,       \* first_and_follow.rs follow(): the map under construction
    ff_done,      \* the flag done of the running fixed-point loop
    ff_todo,      \* nonterminals the running pass has not visited yet
    cc,           \* the CanonicalCollection
    cc_done,      \* the flag done of canonical_collection.rs build()
    work,         \* the drained list the for loop of build() still walks
    cur,          \* the item set cc_i being processed
    cur_items,    \* items of cc_i the inner loop has not visited yet
    action_table, \* ParseTables.action_table
    goto_table,   \* ParseTables.goto_table
    diagnostics,  \* number of "shift/reduce conflict" lines printed
    tb_states,    \* states of cc.sets() the loop of parse_tables.rs build() has not visited
    tb_i,         \* the state i being visited
    tb_items,     \* items of cc_i not visited yet
    tb_nts,       \* nonterminals not visited yet for state i
    n_tokens,     \* length of the Vec<T> handed to Parser::parse
    tokens,       \* the tokens iter.next() has yielded so far, in order
    parse,        \* the locals of the running Parser::parse call and its outcome
    parses,       \* number of Parser::parse calls made on this Parser
    kept,         \* the first call that returned a tree: its input and its tree
    failed_since, \* whether a call failed after the kept one
    fn_call,      \* a direct call of closure or go_to: [op, items, symbol]
    fn_ret        \* the item set that call returned

dbvars == <<db, db_call, db_panic, registered>>
ffvars == <<first, follow, ff_done, ff_todo>>
ccvars == <<cc, cc_done, work, cur, cur_items>>
tbvars == <<action_table, goto_table, diagnostics, tb_states, tb_i, tb_items, tb_nts>>
buildvars == <<grammar, pc, panic>>
parsevars == <<n_tokens, tokens, parse, parses, kept, failed_since>>
fnvars == <<fn_call, fn_ret>>
vars == <<dbvars, buildvars, ffvars, ccvars, tbvars, parsevars, fnvars>>

(***************************************************************************)
(* Bounds of the model.                                                    *)
(***************************************************************************)
\* registrations are explored while db.next < MaxSymbols
MaxSymbols == 6
\* the token vectors handed to Parser::parse hold at most MaxTokens tokens
MaxTokens == 7
\* Parser::parse is called at most MaxParses times on one Parser
MaxParses == 3
\* closure and go_to are called on every set of at most MaxItems items
MaxItems == 1
\* the Reduce steps of a parse are explored while its node stack holds fewer
\* than MaxNodes tree nodes
MaxNodes == 12
\* Grammar::new is given at most MaxProductions productions
MaxProductions == 2
\* each with a right-hand side of at most MaxRhs symbols
MaxRhs == 2

(***************************************************************************)
(* symbol.rs                                                               *)
(***************************************************************************)
\* Symbol(usize): a symbol is its id
NoSymbol == -1

\* labels a caller may try to register
Labels == {"GOAL", "$", "ε", "a", "b", "c", "d"}

EmptyMap == <<>>

\* HashMap::insert
MapInsert(m, k, v) == [x \in (DOMAIN m) \cup {k} |-> IF x = k THEN v ELSE m[x]]

EmptySymbolDb ==
    [next |-> 0, from_label |-> EmptyMap, to_label |-> EmptyMap,
     terminals |-> {}, non_terminals |-> {}]

\* a bug: the id is taken and the counter advanced before the duplicate check
new_symbol_counts_first(d, label) ==
    IF label \in DOMAIN d.from_label
    THEN [db |-> [d EXCEPT !.next = d.next + 1], sym |-> NoSymbol,
          panic |-> "the symbol is already defined"]
    ELSE [db |-> [d EXCEPT !.next = d.next + 1,
                           !.from_label = MapInsert(d.from_label, label, d.next),
                           !.to_label = MapInsert(d.to_label, d.next, label)],
          sym |-> d.next, panic |-> ""]

\* a bug: the counter is not advanced, so ids are reused
new_symbol_reuses_id(d, label) ==
    IF label \in DOMAIN d.from_label
    THEN [db |-> d, sym |-> NoSymbol, panic |-> "the symbol is already defined"]
    ELSE [db |-> [d EXCEPT !.from_label = MapInsert(d.from_label, label, d.next),
                           !.to_label = MapInsert(d.to_label, d.next, label)],
          sym |-> d.next, panic |-> ""]

\* SymbolDb::new_symbol: the result is the table after the call, the symbol
\* returned and the panic message ("" when the call returns)
new_symbol(d, label) ==
    IF label \in DOMAIN d.from_label
    THEN [db |-> d, sym |-> NoSymbol, panic |-> "the symbol is already defined"]
    ELSE [db |-> [d EXCEPT !.next = d.next + 1,
                           !.from_label = MapInsert(d.from_label, label, d.next),
                           !.to_label = MapInsert(d.to_label, d.next, label)],
          sym |-> d.next, panic |-> ""]

\* SymbolDb::new_nonterminal
new_nonterminal(d, label) ==
    LET r == new_symbol(d, label)
    IN  IF r.panic # "" THEN r
        ELSE [r EXCEPT !.db.non_terminals = @ \cup {r.sym}]

\* SymbolDb::new_terminal
new_terminal(d, label) ==
    LET r == new_symbol(d, label)
    IN  IF r.panic # "" THEN r
        ELSE [r EXCEPT !.db.terminals = @ \cup {r.sym}]

\* SymbolDb::new
SymbolDbNew ==
    LET s1 == new_nonterminal(EmptySymbolDb, "GOAL").db
        s2 == new_terminal(s1, "$").db
    IN  new_terminal(s2, "ε").db

\* SymbolDb::is_terminal
is_terminal(d, s) == s \in d.terminals

\* SymbolDb::epsilon, goal, eoi
epsilon(d) == d.from_label["ε"]
goal(d) == d.from_label["GOAL"]
eoi(d) == d.from_label["$"]

(***************************************************************************)
(* production.rs, grammar.rs                                               *)
(***************************************************************************)
\* Production::new
Production(lhs, rhs) == [lhs |-> lhs, rhs |-> rhs]

\* the set of elements of a sequence
Range(s) == {s[i] : i \in DOMAIN s}

\* group_by_lhs in Grammar::new: each LHS maps to its productions in
\* insertion order
group_by_lhs(ps) ==
    [l \in {ps[i].lhs : i \in DOMAIN ps} |-> SelectSeq(ps, LAMBDA p : p.lhs = l)]

\* Grammar::new: the rule GOAL -> start_symbol $ is pushed after the caller's
GrammarNew(symbol_db, start_symbol, ps) ==
    LET p == Production(goal(symbol_db), <<start_symbol, eoi(symbol_db)>>)
    IN  [symbol_db |-> symbol_db,
         start_symbol |-> start_symbol,
         productions |-> group_by_lhs(Append(ps, p))]

\* Grammar::productions; None (no entry) is the empty list: every caller
\* only loops over the result
productions(g, lhs) ==
    IF lhs \in DOMAIN g.productions THEN g.productions[lhs] ELSE <<>>

\* Grammar::terminals, Grammar::nonterminals
terminals(g) == g.symbol_db.terminals
nonterminals(g) == g.symbol_db.non_terminals

(***************************************************************************)
(* The grammars the model builds parsers for.  Each is written as a caller *)
(* writes it: registrations in order, then productions over the labels.    *)
(***************************************************************************)
RECURSIVE RegisterAll(_, _)
RegisterAll(d, regs) ==
    IF regs = <<>> THEN d
    ELSE LET r == IF Head(regs)[1] = "N"
                  THEN new_nonterminal(d, Head(regs)[2])
                  ELSE new_terminal(d, Head(regs)[2])
         IN  RegisterAll(r.db, Tail(regs))

MakeGrammar(regs, start, prods) ==
    LET d == RegisterAll(SymbolDbNew, regs)
        sym(l) == d.from_label[l]
    IN  GrammarNew(d, sym(start),
            [i \in DOMAIN prods |->
                Production(sym(prods[i][1]),
                           [j \in DOMAIN prods[i][2] |-> sym(prods[i][2][j])])])

\* parser.rs test01:  E1 -> ( E1 ) | ε
GrammarParens ==
    MakeGrammar(<< <<"N", "E1">>, <<"T", "(">>, <<"T", ")">> >>, "E1",
        << <<"E1", <<"(", "E1", ")">> >>,
           <<"E1", <<"ε">> >> >>)

\* parser.rs test02:  E1 -> id | E2 ;  E2 -> ( E3 ) ;  E3 -> E1 E3 | ε
GrammarAtoms ==
    MakeGrammar(<< <<"N", "E1">>, <<"N", "E2">>, <<"N", "E3">>,
                   <<"T", "(">>, <<"T", ")">>, <<"T", "id">> >>, "E1",
        << <<"E1", <<"id">> >>,
           <<"E1", <<"E2">> >>,
           <<"E2", <<"(", "E3", ")">> >>,
           <<"E3", <<"E1", "E3">> >>,
           <<"E3", <<"ε">> >> >>)

\* canonical_collection.rs closure_01:  list -> list pair | pair ;
\* pair -> ( pair ) | ( )
GrammarPairs ==
    MakeGrammar(<< <<"N", "list">>, <<"N", "pair">>, <<"T", "(">>, <<"T", ")">> >>,
        "list",
        << <<"list", <<"list", "pair">> >>,
           <<"list", <<"pair">> >>,
           <<"pair", <<"(", "pair", ")">> >>,
           <<"pair", <<"(", ")">> >> >>)

\* dangling else:  S -> if S | if S else S | a
GrammarElse ==
    MakeGrammar(<< <<"N", "S">>, <<"T", "if">>, <<"T", "else">>, <<"T", "a">> >>, "S",
        << <<"S", <<"if", "S">> >>,
           <<"S", <<"if", "S", "else", "S">> >>,
           <<"S", <<"a">> >> >>)

\* S -> A a | B a | x a ;  A -> x ;  B -> x   with S registered first: after x
\* the item S -> x . a precedes the two reduce items A -> x . and B -> x .
GrammarShiftFirst ==
    MakeGrammar(<< <<"N", "S">>, <<"N", "A">>, <<"N", "B">>,
                   <<"T", "x">>, <<"T", "a">> >>, "S",
        << <<"S", <<"A", "a">> >>,
           <<"S", <<"B", "a">> >>,
           <<"S", <<"x", "a">> >>,
           <<"A", <<"x">> >>,
           <<"B", <<"x">> >> >>)

\* the same productions with A and B registered before S: the two reduce
\* items precede the shift item
GrammarReduceFirst ==
    MakeGrammar(<< <<"N", "A">>, <<"N", "B">>, <<"N", "S">>,
                   <<"T", "x">>, <<"T", "a">> >>, "S",
        << <<"S", <<"A", "a">> >>,
           <<"S", <<"B", "a">> >>,
           <<"S", <<"x", "a">> >>,
           <<"A", <<"x">> >>,
           <<"B", <<"x">> >> >>)

\* S -> X a ;  X -> a X | ε : not LR(1), a shift/reduce conflict on a
GrammarTail ==
    MakeGrammar(<< <<"N", "S">>, <<"N", "X">>, <<"T", "a">> >>, "S",
        << <<"S", <<"X", "a">> >>,
           <<"X", <<"a", "X">> >>,
           <<"X", <<"ε">> >> >>)

\* S -> x GOAL | a : a caller's production that uses the reserved GOAL, which
\* symbol_db.goal() hands out, in its RHS
GrammarGoalInside ==
    MakeGrammar(<< <<"N", "S">>, <<"T", "x">>, <<"T", "a">> >>, "S",
        << <<"S", <<"x", "GOAL">> >>,
           <<"S", <<"a">> >> >>)

\* S -> y A c | A A c ;  A -> ε A | x : a caller's production that holds ε,
\* which symbol_db.epsilon() hands out, in front of another symbol
GrammarEpsilonInside ==
    MakeGrammar(<< <<"N", "S">>, <<"N", "A">>,
                   <<"T", "x">>, <<"T", "y">>, <<"T", "c">> >>, "S",
        << <<"S", <<"y", "A", "c">> >>,
           <<"S", <<"A", "A", "c">> >>,
           <<"A", <<"ε", "A">> >>,
           <<"A", <<"x">> >> >>)

\* S -> y A c ;  A -> ε A | x : ε in front of another symbol, and no state
\* below the one after y has A after a dot
GrammarEpsilonAhead ==
    MakeGrammar(<< <<"N", "S">>, <<"N", "A">>,
                   <<"T", "x">>, <<"T", "y">>, <<"T", "c">> >>, "S",
        << <<"S", <<"y", "A", "c">> >>,
           <<"A", <<"ε", "A">> >>,
           <<"A", <<"x">> >> >>)

Grammars ==
    {GrammarParens, GrammarAtoms, GrammarPairs, GrammarElse,
     GrammarShiftFirst, GrammarReduceFirst, GrammarTail}

(***************************************************************************)
(* lr1_item.rs                                                             *)
(***************************************************************************)
\* LR1Item::new
LR1Item(p, dot_position, lookahead) ==
    [production |-> p, dot_position |-> dot_position, lookahead |-> lookahead]

\* LR1Item::symbols_after_dot: rhs[pos..]
symbols_after_dot(item) ==
    SubSeq(item.production.rhs, item.dot_position + 1, Len(item.production.rhs))

\* LR1Item::is_target
is_target(item, d) ==
    item.production.lhs = goal(d) /\ item.lookahead = eoi(d)

\* derive(Ord) on Vec<Symbol>: lexicographic, a proper prefix is smaller
SeqLess(a, b) ==
    \E k \in 0..Len(a) :
        /\ k <= Len(b)
        /\ \A i \in 1..k : a[i] = b[i]
        /\ \/ (k = Len(a) /\ k < Len(b))
           \/ (k < Len(a) /\ k < Len(b) /\ a[k + 1] < b[k + 1])

\* derive(Ord) on Production: lhs, then rhs
ProductionLess(p, q) ==
    \/ p.lhs < q.lhs
    \/ (p.lhs = q.lhs /\ SeqLess(p.rhs, q.rhs))

\* derive(Ord) on LR1Item: production, then dot_position, then lookahead
ItemLess(x, y) ==
    \/ ProductionLess(x.production, y.production)
    \/ /\ x.production = y.production
       /\ \/ x.dot_position < y.dot_position
          \/ (x.dot_position = y.dot_position /\ x.lookahead < y.lookahead)

\* iteration of a BTreeSet<LR1Item>: ascending
ItemsInOrder(S) ==
    [k \in 1..Cardinality(S) |->
        CHOOSE x \in S : Cardinality({y \in S : ItemLess(y, x)}) = k - 1]

(***************************************************************************)
(* canonical_collection.rs: first of a sentence, closure, go_to            *)
(***************************************************************************)
\* first (canonical_collection.rs): ff is the FIRST map of FirstAndFollow
RECURSIVE first_walk(_, _, _)
first_walk(g, ff, symbols) ==
    IF symbols = <<>> THEN {}
    ELSE LET tmp == ff[Head(symbols)]
         IN  IF epsilon(g.symbol_db) \in tmp
             THEN tmp \cup first_walk(g, ff, Tail(symbols))
             ELSE tmp

\* a bug: epsilon is not removed from the result
cc_first_keeps_epsilon(g, ff, symbols) == first_walk(g, ff, symbols)

cc_first(g, ff, symbols) == first_walk(g, ff, symbols) \ {epsilon(g.symbol_db)}

\* the items one pass of closure's loop generates from item i
closure_updates(ff, g, i) ==
    LET unseen == symbols_after_dot(i)
    IN  IF unseen # <<>> /\ ~is_terminal(g.symbol_db, unseen[1])
        THEN LET fs == cc_first(g, ff, Append(Tail(unseen), i.lookahead))
                 ps == productions(g, unseen[1])
             IN  {LR1Item(ps[k], 0, b) : k \in DOMAIN ps, b \in fs}
        ELSE {}

\* a bug: closure's loop makes one pass only
closure_one_pass(ff, g, items) ==
    items \cup UNION {closure_updates(ff, g, i) : i \in items}

\* closure: passes until the size of the set stops growing
RECURSIVE closure(_, _, _)
closure(ff, g, items) ==
    LET updates == UNION {closure_updates(ff, g, i) : i \in items}
    IN  IF updates \subseteq items THEN items
        ELSE closure(ff, g, items \cup updates)

\* a bug: the advanced items are returned as they are, closure is not called
go_to_without_closure(ff, g, items, symbol) ==
    {LR1Item(item.production, item.dot_position + 1, item.lookahead) :
        item \in {it \in items : /\ symbols_after_dot(it) # <<>>
                                 /\ symbols_after_dot(it)[1] = symbol}}

\* go_to
go_to(ff, g, items, symbol) ==
    closure(ff, g,
        {LR1Item(item.production, item.dot_position + 1, item.lookahead) :
            item \in {it \in items : /\ symbols_after_dot(it) # <<>>
                                     /\ symbols_after_dot(it)[1] = symbol}})

(***************************************************************************)
(* first_and_follow.rs                                                     *)
(***************************************************************************)
\* first(): FIRST(t) = {t} for terminals, the empty set for nonterminals
first_initial(g) ==
    [s \in terminals(g) \cup nonterminals(g) |->
        IF s \in terminals(g) THEN {s} ELSE {}]

\* first(): the set new of one production: add first(a_i) until some
\* first(a_i) has no epsilon, and then drop epsilon
RECURSIVE first_new(_, _, _, _)
first_new(g, f, rhs, new) ==
    IF rhs = <<>> THEN new
    ELSE IF Head(rhs) \notin DOMAIN f THEN first_new(g, f, Tail(rhs), new)
    ELSE LET fs == f[Head(rhs)]
         IN  IF epsilon(g.symbol_db) \in fs
             THEN first_new(g, f, Tail(rhs), new \cup fs)
             ELSE (new \cup fs) \ {epsilon(g.symbol_db)}

\* a bug: the flag done is not reset when a set grows, so the loop stops after
\* its first pass
RECURSIVE first_visit_one_pass(_, _, _)
first_visit_one_pass(g, st, ps) ==
    IF ps = <<>> THEN st
    ELSE LET p == Head(ps)
             new == first_new(g, st.map, p.rhs, {})
         IN  first_visit_one_pass(g,
                 [map |-> [st.map EXCEPT ![p.lhs] = @ \cup new], done |-> st.done],
                 Tail(ps))

\* a bug: the flag done is reset by every production, grown set or not
RECURSIVE first_visit_never_done(_, _, _)
first_visit_never_done(g, st, ps) ==
    IF ps = <<>> THEN st
    ELSE LET p == Head(ps)
             new == first_new(g, st.map, p.rhs, {})
         IN  first_visit_never_done(g,
                 [map |-> [st.map EXCEPT ![p.lhs] = @ \cup new], done |-> FALSE],
                 Tail(ps))

\* first(): the body of "for nt in grammar.nonterminals()" for the
\* productions ps of nt; st = [map, done]
RECURSIVE first_visit(_, _, _)
first_visit(g, st, ps) ==
    IF ps = <<>> THEN st
    ELSE LET p == Head(ps)
             new == first_new(g, st.map, p.rhs, {})
             grows == ~(new \subseteq st.map[p.lhs])
         IN  first_visit(g,
                 [map |-> [st.map EXCEPT ![p.lhs] = @ \cup new],
                  done |-> st.done /\ ~grows],
                 Tail(ps))

\* follow(): the empty set for every nonterminal, and $ in follow(goal)
follow_initial(g) ==
    [s \in nonterminals(g) |-> IF s = goal(g.symbol_db) THEN {eoi(g.symbol_db)} ELSE {}]

\* follow(): the walk of one production's RHS from its last symbol (index k)
\* to its first; st = [map, done]
RECURSIVE follow_walk(_, _, _, _, _, _)
follow_walk(g, f, st, rhs, k, tail) ==
    IF k = 0 THEN st
    ELSE LET b == rhs[k]
             eps == epsilon(g.symbol_db)
         IN  IF is_terminal(g.symbol_db, b)
             THEN follow_walk(g, f, st, rhs, k - 1, {b})
             ELSE LET st1 == IF b \in DOMAIN st.map
                             THEN [map |-> [st.map EXCEPT ![b] = @ \cup tail],
                                   done |-> st.done /\ (tail \subseteq st.map[b])]
                             ELSE st
                      tail1 == IF b \notin DOMAIN f THEN tail
                               ELSE IF eps \in f[b] THEN tail \cup (f[b] \ {eps})
                               ELSE f[b]
                  IN  follow_walk(g, f, st1, rhs, k - 1, tail1)

\* a bug: tail starts empty instead of as a copy of follow(nt)
RECURSIVE follow_visit_empty_tail(_, _, _, _, _)
follow_visit_empty_tail(g, f, st, nt, ps) ==
    IF ps = <<>> THEN st
    ELSE follow_visit_empty_tail(g, f,
             follow_walk(g, f, st, Head(ps).rhs, Len(Head(ps).rhs), {}),
             nt, Tail(ps))

\* follow(): the body of "for nt in grammar.nonterminals()" for the
\* productions ps of nt
RECURSIVE follow_visit(_, _, _, _, _)
follow_visit(g, f, st, nt, ps) ==
    IF ps = <<>> THEN st
    ELSE follow_visit(g, f,
             follow_walk(g, f, st, Head(ps).rhs, Len(Head(ps).rhs), st.map[nt]),
             nt, Tail(ps))

(***************************************************************************)
(* canonical_collection.rs: the CanonicalCollection                        *)
(***************************************************************************)
EmptyCC ==
    [next_number |-> 0, int_to_set |-> EmptyMap, set_to_int |-> EmptyMap,
     transitions |-> EmptyMap, unprocessed |-> <<>>]

\* CanonicalCollection::contains
contains(c, set) == set \in DOMAIN c.set_to_int

\* a bug: next_number is not advanced
cc_add_keeps_number(c, set) ==
    IF set \in DOMAIN c.set_to_int
    THEN [cc |-> c, panic |-> "set is already in CC"]
    ELSE [cc |-> [c EXCEPT !.set_to_int = MapInsert(c.set_to_int, set, c.next_number),
                           !.int_to_set = MapInsert(c.int_to_set, c.next_number, set),
                           !.unprocessed = Append(c.unprocessed, set)],
          panic |-> ""]

\* CanonicalCollection::add
cc_add(c, set) ==
    IF set \in DOMAIN c.set_to_int
    THEN [cc |-> c, panic |-> "set is already in CC"]
    ELSE [cc |-> [c EXCEPT !.set_to_int = MapInsert(c.set_to_int, set, c.next_number),
                           !.int_to_set = MapInsert(c.int_to_set, c.next_number, set),
                           !.unprocessed = Append(c.unprocessed, set),
                           !.next_number = c.next_number + 1],
          panic |-> ""]

\* CanonicalCollection::add_transition
cc_add_transition(c, from, on, to) ==
    IF from \notin DOMAIN c.set_to_int THEN [cc |-> c, panic |-> "[from] not in CC"]
    ELSE IF to \notin DOMAIN c.set_to_int THEN [cc |-> c, panic |-> "[to] not in CC"]
    ELSE LET key == <<c.set_to_int[from], on>>
             to_n == c.set_to_int[to]
         IN  IF key \in DOMAIN c.transitions
             THEN IF c.transitions[key] # to_n
                  THEN [cc |-> c, panic |-> "attempting to alter an existing transition"]
                  ELSE [cc |-> c, panic |-> ""]
             ELSE [cc |-> [c EXCEPT !.transitions = MapInsert(c.transitions, key, to_n)],
                   panic |-> ""]

\* build(): the seed item [GOAL -> . start_symbol, $]
seed_item(g) ==
    LR1Item(Production(goal(g.symbol_db), <<g.start_symbol>>), 0, eoi(g.symbol_db))

\* a bug: "done = false" is missing, so the loop stops after its first pass
cc_visit_item_stays_done(ff, g, c, done, cc_i, item) ==
    LET unseen == symbols_after_dot(item)
    IN  IF unseen = <<>> THEN [cc |-> c, done |-> done, panic |-> ""]
        ELSE LET temp == go_to(ff, g, cc_i, unseen[1])
                 a == IF ~contains(c, temp) THEN cc_add(c, temp)
                      ELSE [cc |-> c, panic |-> ""]
                 t == IF a.panic # "" THEN a
                      ELSE cc_add_transition(a.cc, cc_i, unseen[1], temp)
             IN  [cc |-> t.cc, done |-> done, panic |-> t.panic]

\* a bug: the test cc.contains(&temp) is missing, every go_to set is added
cc_visit_item_adds_always(ff, g, c, done, cc_i, item) ==
    LET unseen == symbols_after_dot(item)
    IN  IF unseen = <<>> THEN [cc |-> c, done |-> done, panic |-> ""]
        ELSE LET temp == go_to(ff, g, cc_i, unseen[1])
                 a == cc_add(c, temp)
                 t == IF a.panic # "" THEN a
                      ELSE cc_add_transition(a.cc, cc_i, unseen[1], temp)
             IN  [cc |-> t.cc, done |-> FALSE, panic |-> t.panic]

\* a bug: the new set is added but the transition to it is never recorded
cc_visit_item_forgets_transition(ff, g, c, done, cc_i, item) ==
    LET unseen == symbols_after_dot(item)
    IN  IF unseen = <<>> THEN [cc |-> c, done |-> done, panic |-> ""]
        ELSE LET temp == go_to(ff, g, cc_i, unseen[1])
                 fresh == ~contains(c, temp)
                 a == IF fresh THEN cc_add(c, temp) ELSE [cc |-> c, panic |-> ""]
             IN  [cc |-> a.cc, done |-> done /\ ~fresh, panic |-> a.panic]

\* build(): the body of "for item in &cc_i" for one item
cc_visit_item(ff, g, c, done, cc_i, item) ==
    LET unseen == symbols_after_dot(item)
    IN  IF unseen = <<>> THEN [cc |-> c, done |-> done, panic |-> ""]
        ELSE LET x == unseen[1]
                 temp == go_to(ff, g, cc_i, x)
                 fresh == ~contains(c, temp)
                 a == IF fresh THEN cc_add(c, temp) ELSE [cc |-> c, panic |-> ""]
                 t == IF a.panic # "" THEN a
                      ELSE cc_add_transition(a.cc, cc_i, x, temp)
             IN  [cc |-> t.cc, done |-> done /\ ~fresh, panic |-> t.panic]

(***************************************************************************)
(* action.rs, parse_tables.rs                                              *)
(***************************************************************************)
\* Action::accept, Action::shift, Action::reduce
Accept == [kind |-> "Accept"]
Shift(n) == [kind |-> "Shift", state |-> n]
Reduce(p) == [kind |-> "Reduce", production |-> p]

\* a bug: a Shift that meets a Reduce is fatal, like Reduce against Reduce
add_action_conflict_fatal(t, state, symbol, action) ==
    LET key == <<state, symbol>>
        ok(table, printed) ==
            [action_table |-> table, diagnostics |-> t.diagnostics + printed, panic |-> ""]
    IN  IF key \in DOMAIN t.action_table
        THEN LET other == t.action_table[key]
             IN  IF other = action THEN ok(t.action_table, 0)
                 ELSE IF action.kind = "Reduce" /\ other.kind = "Shift"
                 THEN ok(t.action_table, 1)
                 ELSE IF action.kind = "Shift" /\ other.kind = "Reduce"
                 THEN [action_table |-> t.action_table, diagnostics |-> t.diagnostics,
                       panic |-> "shift/reduce conflict"]
                 ELSE IF action.kind = "Reduce" /\ other.kind = "Reduce"
                 THEN [action_table |-> t.action_table, diagnostics |-> t.diagnostics,
                       panic |-> "reduce/reduce conflict"]
                 ELSE [action_table |-> t.action_table, diagnostics |-> t.diagnostics,
                       panic |-> "unknown conflict"]
        ELSE ok(MapInsert(t.action_table, key, action), 0)

\* a bug: a Shift that meets a Reduce leaves the Reduce in the cell
add_action_keeps_reduce(t, state, symbol, action) ==
    LET key == <<state, symbol>>
        ok(table, printed) ==
            [action_table |-> table, diagnostics |-> t.diagnostics + printed, panic |-> ""]
    IN  IF key \in DOMAIN t.action_table
        THEN LET other == t.action_table[key]
             IN  IF other = action THEN ok(t.action_table, 0)
                 ELSE IF action.kind = "Shift" /\ other.kind = "Reduce"
                 THEN ok(t.action_table, 1)
                 ELSE IF action.kind = "Reduce" /\ other.kind = "Shift"
                 THEN ok(t.action_table, 1)
                 ELSE IF action.kind = "Reduce" /\ other.kind = "Reduce"
                 THEN [action_table |-> t.action_table, diagnostics |-> t.diagnostics,
                       panic |-> "reduce/reduce conflict"]
                 ELSE [action_table |-> t.action_table, diagnostics |-> t.diagnostics,
                       panic |-> "unknown conflict"]
        ELSE ok(MapInsert(t.action_table, key, action), 0)

\* ParseTables::add_action; t = [action_table, diagnostics]
add_action(t, state, symbol, action) ==
    LET key == <<state, symbol>>
        ok(table, printed) ==
            [action_table |-> table, diagnostics |-> t.diagnostics + printed, panic |-> ""]
    IN  IF key \in DOMAIN t.action_table
        THEN LET other == t.action_table[key]
             IN  IF other = action THEN ok(t.action_table, 0)
                 ELSE IF action.kind = "Shift" /\ other.kind = "Reduce"
                 THEN ok(MapInsert(t.action_table, key, action), 1)
                 ELSE IF action.kind = "Reduce" /\ other.kind = "Shift"
                 THEN ok(t.action_table, 1)
                 ELSE IF action.kind = "Reduce" /\ other.kind = "Reduce"
                 THEN [action_table |-> t.action_table, diagnostics |-> t.diagnostics,
                       panic |-> "reduce/reduce conflict"]
                 ELSE [action_table |-> t.action_table, diagnostics |-> t.diagnostics,
                       panic |-> "unknown conflict"]
        ELSE ok(MapInsert(t.action_table, key, action), 0)

\* ParseTables::add_transition
add_transition(table, from, on, to) ==
    IF <<from, on>> \in DOMAIN table
    THEN [goto_table |-> table,
          panic |-> "attempt to replace an existing entry in goto table"]
    ELSE [goto_table |-> MapInsert(table, <<from, on>>, to), panic |-> ""]

\* a bug: the test "this isn't an epsilon production" is missing, so epsilon
\* after the dot is shifted like any terminal
table_visit_item_shifts_epsilon(g, c, t, i, item) ==
    LET unseen == symbols_after_dot(item)
        d == g.symbol_db
        same == [action_table |-> t.action_table, diagnostics |-> t.diagnostics,
                 panic |-> ""]
    IN  IF unseen # <<>> /\ <<i, unseen[1]>> \in DOMAIN c.transitions
        THEN IF is_terminal(d, unseen[1])
             THEN add_action(t, i, unseen[1], Shift(c.transitions[<<i, unseen[1]>>]))
             ELSE same
        ELSE IF unseen = <<>> /\ is_target(item, d)
        THEN add_action(t, i, eoi(d), Accept)
        ELSE IF unseen = <<>> \/ unseen[1] = epsilon(d)
        THEN add_action(t, i, item.lookahead, Reduce(item.production))
        ELSE [action_table |-> t.action_table, diagnostics |-> t.diagnostics,
              panic |-> "something went terribly wrong while building parse tables"]

\* build(): the body of "for item in cc_i" for one item of state i
table_visit_item(g, c, t, i, item) ==
    LET unseen == symbols_after_dot(item)
        d == g.symbol_db
        same == [action_table |-> t.action_table, diagnostics |-> t.diagnostics,
                 panic |-> ""]
    IN  IF unseen # <<>> /\ unseen[1] # epsilon(d)
           /\ <<i, unseen[1]>> \in DOMAIN c.transitions
        THEN IF is_terminal(d, unseen[1])
             THEN add_action(t, i, unseen[1], Shift(c.transitions[<<i, unseen[1]>>]))
             ELSE same
        ELSE IF unseen = <<>> /\ is_target(item, d)
        THEN add_action(t, i, eoi(d), Accept)
        ELSE IF unseen = <<>> \/ unseen[1] = epsilon(d)
        THEN add_action(t, i, item.lookahead, Reduce(item.production))
        ELSE [action_table |-> t.action_table, diagnostics |-> t.diagnostics,
              panic |-> "something went terribly wrong while building parse tables"]

\* iteration of the BTreeMap cc.sets(): ascending state numbers
NumbersInOrder(S) ==
    [k \in 1..Cardinality(S) |->
        CHOOSE x \in S : Cardinality({y \in S : y < x}) = k - 1]

(***************************************************************************)
(* parse_tree.rs, parser.rs                                                *)
(***************************************************************************)
\* ParseTree::new
ParseTree(symbol, token) == [symbol |-> symbol, token |-> token, children |-> <<>>]

\* ParseTree::add_child
add_child(t, child) == [t EXCEPT !.children = Append(@, child)]

\* a token T of the caller is the terminal its lexer gave it and its place in
\* the input; token_to_symbol is the caller's function
Token(s, k) == [sym |-> s, pos |-> k]
token_to_symbol(t) == t.sym
NoToken == Token(NoSymbol, 0)

\* the symbols token_to_symbol can return: the registered ones
Symbols(g) == DOMAIN g.symbol_db.to_label

\* an Option is a sequence of length at most one
None == <<>>
Some(x) == <<x>>

\* no call of Parser::parse is running
IdleParse ==
    [status |-> "idle", token |-> NoToken, symbol |-> NoSymbol,
     parse_stack |-> <<>>, state_stack |-> <<>>, result |-> None, panic |-> ""]

\* a panic unwinds the call: its locals are dropped and nothing is returned
ParsePanic(msg) == [IdleParse EXCEPT !.status = "error", !.panic = msg]

\* ParseTables::action, ParseTables::transition
action(table, state, symbol) ==
    IF <<state, symbol>> \in DOMAIN table THEN Some(table[<<state, symbol>>]) ELSE None
transition(table, state, symbol) ==
    IF <<state, symbol>> \in DOMAIN table THEN Some(table[<<state, symbol>>]) ELSE None

\* Parser::parse up to the loop: state 0 is pushed and the first token read;
\* nxt is what iter.next() returns
parse_start(nxt) ==
    IF nxt = None THEN ParsePanic("called Option::unwrap() on a None value")
    ELSE [IdleParse EXCEPT !.status = "running",
                           !.state_stack = <<0>>,
                           !.token = nxt[1],
                           !.symbol = token_to_symbol(nxt[1])]

\* a bug: epsilon is counted as a symbol of the RHS
effective_rhs_keeps_epsilon(g, p) == p.rhs

\* the RHS a Reduce pops: epsilon is filtered out
effective_rhs(g, p) == SelectSeq(p.rhs, LAMBDA s : s # epsilon(g.symbol_db))

\* a bug: the loop "for _ in 0..size" runs one time too few
PopN_one_short(stack, k) ==
    SubSeq(stack, 1, IF k = 0 THEN Len(stack)
                     ELSE IF Len(stack) > k - 1 THEN Len(stack) - (k - 1) ELSE 0)

\* pop() of a Vec, k times; popping an empty Vec returns None and changes nothing
PopN(stack, k) == SubSeq(stack, 1, IF Len(stack) > k THEN Len(stack) - k ELSE 0)

\* a bug: the children are attached in the order they were popped
reduce_children_as_popped(stack, k) ==
    [j \in 1..k |-> stack[Len(stack) - j + 1]]

\* the children of a reduce node: the k nodes popped into temp and popped
\* from temp again, so in their order on the stack
reduce_children(stack, k) == SubSeq(stack, Len(stack) - k + 1, Len(stack))

RECURSIVE add_children(_, _)
add_children(t, cs) ==
    IF cs = <<>> THEN t ELSE add_children(add_child(t, Head(cs)), Tail(cs))

\* Parser::parse, Action::Reduce(p)
parse_reduce(g, gt, st, p) ==
    LET size == Len(effective_rhs(g, p))
    IN  IF size > Len(st.parse_stack)
        THEN ParsePanic("called Option::unwrap() on a None value")
        ELSE LET t == add_children(ParseTree(p.lhs, st.token),
                                   reduce_children(st.parse_stack, size))
                 states == PopN(st.state_stack, size)
             IN  IF states = <<>>
                 THEN ParsePanic("called Option::unwrap() on a None value")
                 ELSE LET next_state == transition(gt, states[Len(states)], p.lhs)
                      IN  IF next_state = None
                          THEN ParsePanic("no entry in transition table")
                          ELSE [st EXCEPT
                                  !.parse_stack = Append(PopN(st.parse_stack, size), t),
                                  !.state_stack = Append(states, next_state[1])]

\* Parser::parse, Action::Shift(next_state); nxt is what iter.next() returns
parse_shift(st, next_state, nxt) ==
    IF nxt = None THEN ParsePanic("called Option::unwrap() on a None value")
    ELSE [st EXCEPT !.parse_stack = Append(@, ParseTree(st.symbol, st.token)),
                    !.state_stack = Append(@, next_state),
                    !.token = nxt[1],
                    !.symbol = token_to_symbol(nxt[1])]

\* Parser::parse, Action::Accept: break, and parse_stack.pop() is returned
parse_accept(st) ==
    [IdleParse EXCEPT !.status = "accepted",
                      !.result = IF st.parse_stack = <<>> THEN None
                                 ELSE Some(st.parse_stack[Len(st.parse_stack)])]

\* a bug: a missing entry ends the loop like Accept, and the top node is returned
parse_no_action_returns_top(st) == parse_accept(st)

\* Parser::parse, no entry in the action table
parse_no_action(st) == ParsePanic("no entry in action table")

\* a bug: a step consumes the entries of the state it leaves
tables_after_step_loses(table) ==
    [k \in {x \in DOMAIN table : x[1] # 0} |-> table[k]]

\* Parser::parse takes &self: a step leaves the Parser's tables as they are
tables_after_step(table) == table

(***************************************************************************)
(* Parser::new as a state machine: FIRST, FOLLOW, the canonical collection *)
(* and the tables.  The hash-based sets are iterated in any order.         *)
(***************************************************************************)
NoSet == {}
NoState == -1
\* closure and go_to have not been called directly
NoCall == [op |-> "none", items |-> NoSet, symbol |-> NoSymbol]

Init ==
    /\ grammar \in Grammars
    /\ db = grammar.symbol_db
    /\ db_call = [op |-> "new", label |-> ""]
    /\ db_panic = ""
    /\ registered = [k \in 1..grammar.symbol_db.next |-> grammar.symbol_db.to_label[k - 1]]
    /\ pc = "first"
    /\ panic = ""
    /\ first = first_initial(grammar)
    /\ follow = EmptyMap
    /\ ff_done = TRUE
    /\ ff_todo = nonterminals(grammar)
    /\ cc = EmptyCC
    /\ cc_done = FALSE
    /\ work = <<>>
    /\ cur = NoSet
    /\ cur_items = <<>>
    /\ action_table = EmptyMap
    /\ goto_table = EmptyMap
    /\ diagnostics = 0
    /\ tb_states = <<>>
    /\ tb_i = NoState
    /\ tb_items = <<>>
    /\ tb_nts = {}
    /\ n_tokens = 0
    /\ tokens = <<>>
    /\ parse = IdleParse
    /\ parses = 0
    /\ kept = <<>>
    /\ failed_since = FALSE
    /\ fn_call = NoCall
    /\ fn_ret = NoSet

\* first(): one nonterminal of the running pass
FirstVisit ==
    /\ pc = "first"
    /\ \E nt \in ff_todo :
        LET st == first_visit(grammar, [map |-> first, done |-> ff_done],
                              productions(grammar, nt))
        IN  /\ first' = st.map
            /\ ff_done' = st.done
            /\ ff_todo' = ff_todo \ {nt}
    /\ UNCHANGED <<dbvars, fnvars, buildvars, follow, ccvars, tbvars, parsevars>>

\* first(): the end of a pass: another pass, or the map is returned and
\* follow() starts
FirstPassEnd ==
    /\ pc = "first"
    /\ ff_todo = {}
    /\ IF ff_done
       THEN /\ pc' = "follow"
            /\ follow' = follow_initial(grammar)
       ELSE /\ pc' = pc
            /\ follow' = follow
    /\ ff_done' = TRUE
    /\ ff_todo' = nonterminals(grammar)
    /\ UNCHANGED <<dbvars, fnvars, grammar, panic, first, ccvars, tbvars, parsevars>>

\* follow(): one nonterminal of the running pass
FollowVisit ==
    /\ pc = "follow"
    /\ \E nt \in ff_todo :
        LET st == follow_visit(grammar, first, [map |-> follow, done |-> ff_done],
                               nt, productions(grammar, nt))
        IN  /\ follow' = st.map
            /\ ff_done' = st.done
            /\ ff_todo' = ff_todo \ {nt}
    /\ UNCHANGED <<dbvars, fnvars, buildvars, first, ccvars, tbvars, parsevars>>

\* follow(): the end of a pass
FollowPassEnd ==
    /\ pc = "follow"
    /\ ff_todo = {}
    /\ IF ff_done
       THEN /\ pc' = "seed"
            /\ ff_todo' = {}
       ELSE /\ pc' = pc
            /\ ff_todo' = nonterminals(grammar)
    /\ ff_done' = TRUE
    /\ UNCHANGED <<dbvars, fnvars, grammar, panic, first, follow, ccvars, tbvars, parsevars>>

\* canonical_collection.rs build(): cc0 = closure of the seed item is added
CcSeed ==
    /\ pc = "seed"
    /\ LET a == cc_add(EmptyCC, closure(first, grammar, {seed_item(grammar)}))
       IN  /\ cc' = a.cc
           /\ panic' = a.panic
           /\ pc' = IF a.panic # "" THEN "failed" ELSE "cc"
    /\ cc_done' = FALSE
    /\ UNCHANGED <<dbvars, fnvars, grammar, ffvars, work, cur, cur_items, tbvars, parsevars>>

\* build(): the head of "while !done": the unprocessed sets are taken, or
\* the collection is returned and parse_tables.rs build() starts its loop
CcPass ==
    /\ pc = "cc"
    /\ work = <<>>
    /\ cur_items = <<>>
    /\ IF cc_done
       THEN /\ pc' = "tables"
            /\ tb_states' = NumbersInOrder(DOMAIN cc.int_to_set)
            /\ UNCHANGED <<cc, cc_done, work>>
       ELSE /\ cc_done' = TRUE
            /\ work' = cc.unprocessed
            /\ cc' = [cc EXCEPT !.unprocessed = <<>>]
            /\ UNCHANGED <<pc, tb_states>>
    /\ cur' = NoSet
    /\ UNCHANGED <<dbvars, fnvars, grammar, panic, ffvars, cur_items, action_table,
                   goto_table, diagnostics, tb_i, tb_items, tb_nts, parsevars>>

\* build(): the next cc_i of the drained list
CcTakeSet ==
    /\ pc = "cc"
    /\ work # <<>>
    /\ cur_items = <<>>
    /\ cur' = Head(work)
    /\ cur_items' = ItemsInOrder(Head(work))
    /\ work' = Tail(work)
    /\ UNCHANGED <<dbvars, fnvars, buildvars, ffvars, cc, cc_done, tbvars, parsevars>>

\* build(): one item of cc_i
CcItem ==
    /\ pc = "cc"
    /\ cur_items # <<>>
    /\ LET r == cc_visit_item(first, grammar, cc, cc_done, cur, Head(cur_items))
       IN  /\ cc' = r.cc
           /\ cc_done' = r.done
           /\ panic' = r.panic
           /\ pc' = IF r.panic # "" THEN "failed" ELSE pc
    /\ cur_items' = Tail(cur_items)
    /\ UNCHANGED <<dbvars, fnvars, grammar, ffvars, work, cur, tbvars, parsevars>>

\* parse_tables.rs build(): the next (i, cc_i) of cc.sets(), or, after the
\* last, the tables are returned: FirstAndFollow and the collection are dropped
TbTakeState ==
    /\ pc = "tables"
    /\ tb_items = <<>>
    /\ tb_nts = {}
    /\ IF tb_states = <<>>
       THEN /\ pc' = "built"
            /\ tb_i' = NoState
            /\ cc' = EmptyCC
            /\ first' = EmptyMap
            /\ follow' = EmptyMap
            /\ UNCHANGED <<tb_states, tb_items, tb_nts>>
       ELSE /\ tb_i' = Head(tb_states)
            /\ tb_states' = Tail(tb_states)
            /\ tb_items' = ItemsInOrder(cc.int_to_set[Head(tb_states)])
            /\ tb_nts' = nonterminals(grammar)
            /\ UNCHANGED <<pc, cc, first, follow>>
    /\ UNCHANGED <<dbvars, fnvars, grammar, panic, ff_done, ff_todo, cc_done, work, cur,
                   cur_items, action_table, goto_table, diagnostics, parsevars>>

\* build(): one item of cc_i
TbItem ==
    /\ pc = "tables"
    /\ tb_items # <<>>
    /\ LET r == table_visit_item(grammar, cc,
                    [action_table |-> action_table, diagnostics |-> diagnostics],
                    tb_i, Head(tb_items))
       IN  /\ action_table' = r.action_table
           /\ diagnostics' = r.diagnostics
           /\ panic' = r.panic
           /\ pc' = IF r.panic # "" THEN "failed" ELSE pc
    /\ tb_items' = Tail(tb_items)
    /\ UNCHANGED <<dbvars, fnvars, grammar, ffvars, ccvars, goto_table, tb_states, tb_i, tb_nts,
                   parsevars>>

\* build(): one nonterminal of "for nt in grammar.nonterminals()"
TbGoto ==
    /\ pc = "tables"
    /\ tb_items = <<>>
    /\ \E nt \in tb_nts :
        /\ tb_nts' = tb_nts \ {nt}
        /\ LET r == IF <<tb_i, nt>> \in DOMAIN cc.transitions
                    THEN add_transition(goto_table, tb_i, nt, cc.transitions[<<tb_i, nt>>])
                    ELSE [goto_table |-> goto_table, panic |-> ""]
           IN  /\ goto_table' = r.goto_table
               /\ panic' = r.panic
               /\ pc' = IF r.panic # "" THEN "failed" ELSE pc
    /\ UNCHANGED <<dbvars, fnvars, grammar, ffvars, ccvars, action_table, diagnostics,
                   tb_states, tb_i, tb_items, parsevars>>

Build ==
    \/ FirstVisit \/ FirstPassEnd \/ FollowVisit \/ FollowPassEnd
    \/ CcSeed \/ CcPass \/ CcTakeSet \/ CcItem
    \/ TbTakeState \/ TbItem \/ TbGoto

(***************************************************************************)
(* Parser::parse as a state machine.  The Vec of tokens is read through    *)
(* iter.next(): an element is chosen when it is first read.                *)
(***************************************************************************)
\* what iter.next() can return when the Vec holds n tokens
NextTokens(n) ==
    IF Len(tokens) >= n THEN {None}
    ELSE {Some(Token(s, Len(tokens) + 1)) : s \in Symbols(grammar)}

Top == parse.state_stack[Len(parse.state_stack)]
Looked == action(action_table, Top, parse.symbol)

Frame ==
    /\ action_table' = tables_after_step(action_table)
    /\ goto_table' = tables_after_step(goto_table)
    /\ UNCHANGED <<dbvars, fnvars, buildvars, ffvars, ccvars, diagnostics, tb_states, tb_i,
                   tb_items, tb_nts, parses, kept, failed_since>>

\* Parser::parse is called with a Vec<T> of n tokens
ParseStart ==
    /\ pc = "built"
    /\ parse.status = "idle"
    /\ \E n \in 0..MaxTokens :
        /\ n_tokens' = n
        /\ \E nxt \in (IF n = 0 THEN {None} ELSE {Some(Token(s, 1)) : s \in Symbols(grammar)}) :
            /\ tokens' = nxt
            /\ parse' = parse_start(nxt)
    /\ parses' = parses + 1
    /\ UNCHANGED <<dbvars, fnvars, buildvars, ffvars, ccvars, tbvars, kept, failed_since>>

ParseShift ==
    /\ parse.status = "running"
    /\ Looked # None
    /\ Looked[1].kind = "Shift"
    /\ \E nxt \in NextTokens(n_tokens) :
        /\ tokens' = tokens \o nxt
        /\ parse' = parse_shift(parse, Looked[1].state, nxt)
    /\ UNCHANGED n_tokens
    /\ Frame

ParseReduce ==
    /\ parse.status = "running"
    /\ Looked # None
    /\ Looked[1].kind = "Reduce"
    /\ parse' = parse_reduce(grammar, goto_table, parse, Looked[1].production)
    /\ UNCHANGED <<n_tokens, tokens>>
    /\ Frame

ParseAccept ==
    /\ parse.status = "running"
    /\ Looked # None
    /\ Looked[1].kind = "Accept"
    /\ parse' = parse_accept(parse)
    /\ UNCHANGED <<n_tokens, tokens>>
    /\ Frame

ParseNoAction ==
    /\ parse.status = "running"
    /\ Looked = None
    /\ parse' = parse_no_action(parse)
    /\ UNCHANGED <<n_tokens, tokens>>
    /\ Frame

\* the caller is back from Parser::parse, the Vec it gave is dropped, and it may
\* call Parser::parse again
ParseAgain ==
    /\ parse.status \in {"accepted", "error"}
    /\ parses < MaxParses
    /\ kept' = IF kept = None /\ parse.status = "accepted" /\ parse.result # None
               THEN Some([n_tokens |-> n_tokens, tokens |-> tokens,
                          result |-> parse.result])
               ELSE kept
    /\ failed_since' = (failed_since \/ (kept # None /\ parse.status = "error"))
    /\ parse' = IdleParse
    /\ n_tokens' = 0
    /\ tokens' = <<>>
    /\ UNCHANGED <<dbvars, fnvars, buildvars, ffvars, ccvars, tbvars, parses>>

Parse == ParseStart \/ ParseShift \/ ParseReduce \/ ParseAccept \/ ParseNoAction

Next == Build \/ Parse

\* Parser::new, then one call of Parser::parse
Spec == Init /\ [][Next]_vars

NextReuse == Build \/ Parse \/ ParseAgain

\* Parser::new, then up to MaxParses calls of Parser::parse
SpecReuse == Init /\ [][NextReuse]_vars

\* the grammars of the model and the one that uses GOAL in an RHS
GrammarsWide == Grammars \cup {GrammarGoalInside}

InitWide ==
    /\ grammar \in GrammarsWide
    /\ db = grammar.symbol_db
    /\ db_call = [op |-> "new", label |-> ""]
    /\ db_panic = ""
    /\ registered = [k \in 1..grammar.symbol_db.next |-> grammar.symbol_db.to_label[k - 1]]
    /\ pc = "first"
    /\ panic = ""
    /\ first = first_initial(grammar)
    /\ follow = EmptyMap
    /\ ff_done = TRUE
    /\ ff_todo = nonterminals(grammar)
    /\ cc = EmptyCC
    /\ cc_done = FALSE
    /\ work = <<>>
    /\ cur = NoSet
    /\ cur_items = <<>>
    /\ action_table = EmptyMap
    /\ goto_table = EmptyMap
    /\ diagnostics = 0
    /\ tb_states = <<>>
    /\ tb_i = NoState
    /\ tb_items = <<>>
    /\ tb_nts = {}
    /\ n_tokens = 0
    /\ tokens = <<>>
    /\ parse = IdleParse
    /\ parses = 0
    /\ kept = <<>>
    /\ failed_since = FALSE
    /\ fn_call = NoCall
    /\ fn_ret = NoSet

\* Parser::new, then one call of Parser::parse, GOAL allowed in an RHS
SpecWide == InitWide /\ [][Next]_vars

(***************************************************************************)
(* Parser::new as a function: the same loops run to their end, the         *)
(* hash-based sets iterated in ascending order of symbol id.               *)
(***************************************************************************)
\* first(): one pass of "for nt in grammar.nonterminals()"
RECURSIVE first_pass(_, _, _)
first_pass(g, st, nts) ==
    IF nts = <<>> THEN st
    ELSE first_pass(g, first_visit(g, st, productions(g, Head(nts))), Tail(nts))

\* first(): "while !done"
RECURSIVE first_run(_, _)
first_run(g, map) ==
    LET st == first_pass(g, [map |-> map, done |-> TRUE],
                         NumbersInOrder(nonterminals(g)))
    IN  IF st.done THEN st.map ELSE first_run(g, st.map)

\* canonical_collection.rs build(): "for item in &cc_i"; st = [cc, done, panic]
RECURSIVE cc_visit_set(_, _, _, _, _)
cc_visit_set(ff, g, st, cc_i, items) ==
    IF items = <<>> \/ st.panic # "" THEN st
    ELSE cc_visit_set(ff, g, cc_visit_item(ff, g, st.cc, st.done, cc_i, Head(items)),
                      cc_i, Tail(items))

\* build(): "for cc_i in cc.take_unprocessed()"
RECURSIVE cc_visit_all(_, _, _, _)
cc_visit_all(ff, g, st, sets) ==
    IF sets = <<>> \/ st.panic # "" THEN st
    ELSE cc_visit_all(ff, g,
             cc_visit_set(ff, g, st, Head(sets), ItemsInOrder(Head(sets))),
             Tail(sets))

\* build(): "while !done"
RECURSIVE cc_run(_, _, _)
cc_run(ff, g, c) ==
    LET st == cc_visit_all(ff, g,
                  [cc |-> [c EXCEPT !.unprocessed = <<>>], done |-> TRUE, panic |-> ""],
                  c.unprocessed)
    IN  IF st.done \/ st.panic # "" THEN st ELSE cc_run(ff, g, st.cc)

\* canonical_collection.rs build()
cc_build(ff, g) ==
    LET a == cc_add(EmptyCC, closure(ff, g, {seed_item(g)}))
    IN  IF a.panic # "" THEN [cc |-> a.cc, done |-> FALSE, panic |-> a.panic]
        ELSE cc_run(ff, g, a.cc)

\* parse_tables.rs build(): "for item in cc_i"; t = [action_table, diagnostics, panic]
RECURSIVE table_visit_items(_, _, _, _, _)
table_visit_items(g, c, t, i, items) ==
    IF items = <<>> \/ t.panic # "" THEN t
    ELSE table_visit_items(g, c, table_visit_item(g, c, t, i, Head(items)), i, Tail(items))

\* build(): "for nt in grammar.nonterminals()"; t = [goto_table, panic]
RECURSIVE table_visit_nts(_, _, _, _)
table_visit_nts(c, t, i, nts) ==
    IF nts = <<>> \/ t.panic # "" THEN t
    ELSE table_visit_nts(c,
             IF <<i, Head(nts)>> \in DOMAIN c.transitions
             THEN add_transition(t.goto_table, i, Head(nts), c.transitions[<<i, Head(nts)>>])
             ELSE t,
             i, Tail(nts))

\* build(): "for (&i, cc_i) in cc.sets()"; t = [action_table, goto_table,
\* diagnostics, panic]
RECURSIVE tables_run(_, _, _, _)
tables_run(g, c, t, states) ==
    IF states = <<>> \/ t.panic # "" THEN t
    ELSE LET i == Head(states)
             a == table_visit_items(g, c,
                      [action_table |-> t.action_table, diagnostics |-> t.diagnostics,
                       panic |-> ""],
                      i, ItemsInOrder(c.int_to_set[i]))
             n == IF a.panic # "" THEN [goto_table |-> t.goto_table, panic |-> a.panic]
                  ELSE table_visit_nts(c, [goto_table |-> t.goto_table, panic |-> ""], i,
                                       NumbersInOrder(nonterminals(g)))
         IN  tables_run(g, c,
                 [action_table |-> a.action_table, goto_table |-> n.goto_table,
                  diagnostics |-> a.diagnostics, panic |-> n.panic],
                 Tail(states))

\* Parser::new: FIRST, the collection and the tables of grammar g
parser_new(g) ==
    LET ff == first_run(g, first_initial(g))
        c == cc_build(ff, g)
        t == IF c.panic # ""
             THEN [action_table |-> EmptyMap, goto_table |-> EmptyMap,
                   diagnostics |-> 0, panic |-> c.panic]
             ELSE tables_run(g, c.cc,
                      [action_table |-> EmptyMap, goto_table |-> EmptyMap,
                       diagnostics |-> 0, panic |-> ""],
                      NumbersInOrder(DOMAIN c.cc.int_to_set))
    IN  [first |-> ff, cc |-> c.cc, action_table |-> t.action_table,
         goto_table |-> t.goto_table, diagnostics |-> t.diagnostics, panic |-> t.panic]

\* Parser::new of every grammar of the model
Built == [g \in Grammars |-> parser_new(g)]

(***************************************************************************)
(* The symbol table as a state machine: any sequence of registrations.     *)
(***************************************************************************)
InitDb ==
    /\ db = SymbolDbNew
    /\ db_call = [op |-> "new", label |-> ""]
    /\ db_panic = ""
    /\ registered = <<"GOAL", "$", "ε">>
    /\ grammar = EmptyMap
    /\ pc = "db"
    /\ panic = ""
    /\ first = EmptyMap
    /\ follow = EmptyMap
    /\ ff_done = TRUE
    /\ ff_todo = {}
    /\ cc = EmptyCC
    /\ cc_done = FALSE
    /\ work = <<>>
    /\ cur = NoSet
    /\ cur_items = <<>>
    /\ action_table = EmptyMap
    /\ goto_table = EmptyMap
    /\ diagnostics = 0
    /\ tb_states = <<>>
    /\ tb_i = NoState
    /\ tb_items = <<>>
    /\ tb_nts = {}
    /\ n_tokens = 0
    /\ tokens = <<>>
    /\ parse = IdleParse
    /\ parses = 0
    /\ kept = <<>>
    /\ failed_since = FALSE
    /\ fn_call = NoCall
    /\ fn_ret = NoSet

Register(op, label, r) ==
    /\ db' = r.db
    /\ db_call' = [op |-> op, label |-> label]
    /\ db_panic' = r.panic
    /\ registered' = IF r.panic = "" THEN Append(registered, label) ELSE registered
    /\ UNCHANGED <<buildvars, fnvars, ffvars, ccvars, tbvars, parsevars>>

NewTerminal ==
    /\ db.next < MaxSymbols
    /\ \E label \in Labels : Register("new_terminal", label, new_terminal(db, label))

NewNonterminal ==
    /\ db.next < MaxSymbols
    /\ \E label \in Labels : Register("new_nonterminal", label, new_nonterminal(db, label))

NextDb == NewTerminal \/ NewNonterminal

SpecDb == InitDb /\ [][NextDb]_vars

(***************************************************************************)
(* Grammar::new as a state machine: one call, on any start symbol and any  *)
(* list of productions.  A Symbol is a plain id: the caller can hold ids   *)
(* of the table given (GOAL, $ and ε through its accessors) and ids handed *)
(* out by another SymbolDb, which the table given does not know.           *)
(***************************************************************************)
\* the table of the call: GOAL, $, ε, then S and a
CallerDb == RegisterAll(SymbolDbNew, << <<"N", "S">>, <<"T", "a">> >>)

\* the Symbol values the caller can hold: those of CallerDb and one more that
\* a longer SymbolDb handed out
CallerSymbols == 0..CallerDb.next

\* the right-hand sides and the lists of productions the caller can write
SeqsUpTo(S, n) == UNION {[1..k -> S] : k \in 0..n}
CallerProductions ==
    {Production(l, r) : l \in CallerSymbols,
                        r \in SeqsUpTo(CallerSymbols, MaxRhs) \ {<<>>}}

InitGrammar ==
    /\ db = CallerDb
    /\ db_call = [op |-> "new", label |-> ""]
    /\ db_panic = ""
    /\ registered = [k \in 1..CallerDb.next |-> CallerDb.to_label[k - 1]]
    /\ grammar = EmptyMap
    /\ pc = "grammar_args"
    /\ panic = ""
    /\ first = EmptyMap
    /\ follow = EmptyMap
    /\ ff_done = TRUE
    /\ ff_todo = {}
    /\ cc = EmptyCC
    /\ cc_done = FALSE
    /\ work = <<>>
    /\ cur = NoSet
    /\ cur_items = <<>>
    /\ action_table = EmptyMap
    /\ goto_table = EmptyMap
    /\ diagnostics = 0
    /\ tb_states = <<>>
    /\ tb_i = NoState
    /\ tb_items = <<>>
    /\ tb_nts = {}
    /\ n_tokens = 0
    /\ tokens = <<>>
    /\ parse = IdleParse
    /\ parses = 0
    /\ kept = <<>>
    /\ failed_since = FALSE
    /\ fn_call = NoCall
    /\ fn_ret = NoSet

\* Grammar::new(symbol_db, start_symbol, productions): it has no failing path
GrammarNewCall ==
    /\ pc = "grammar_args"
    /\ \E start_symbol \in CallerSymbols :
       \E ps \in SeqsUpTo(CallerProductions, MaxProductions) :
           grammar' = GrammarNew(db, start_symbol, ps)
    /\ pc' = "grammar"
    /\ panic' = ""
    /\ UNCHANGED <<dbvars, fnvars, ffvars, ccvars, tbvars, parsevars>>

NextGrammar == GrammarNewCall

SpecGrammar == InitGrammar /\ [][NextGrammar]_vars

(***************************************************************************)
(* FirstAndFollow::new as a state machine, on every grammar of at most     *)
(* MaxProductions productions over the nonterminals S and A and the        *)
(* terminals a and ε, each RHS of at most MaxRhs symbols.                  *)
(***************************************************************************)
FFDb == RegisterAll(SymbolDbNew, << <<"N", "S">>, <<"N", "A">>, <<"T", "a">> >>)

FFProductions ==
    LET sym(l) == FFDb.from_label[l]
    IN  {Production(l, r) :
            l \in {sym("S"), sym("A")},
            r \in SeqsUpTo({sym("S"), sym("A"), sym("a"), sym("ε")}, MaxRhs) \ {<<>>}}

FFGrammars ==
    {GrammarNew(FFDb, FFDb.from_label["S"], ps) :
        ps \in SeqsUpTo(FFProductions, MaxProductions)}

InitFF ==
    /\ grammar \in FFGrammars
    /\ db = grammar.symbol_db
    /\ db_call = [op |-> "new", label |-> ""]
    /\ db_panic = ""
    /\ registered = [k \in 1..grammar.symbol_db.next |-> grammar.symbol_db.to_label[k - 1]]
    /\ pc = "first"
    /\ panic = ""
    /\ first = first_initial(grammar)
    /\ follow = EmptyMap
    /\ ff_done = TRUE
    /\ ff_todo = nonterminals(grammar)
    /\ cc = EmptyCC
    /\ cc_done = FALSE
    /\ work = <<>>
    /\ cur = NoSet
    /\ cur_items = <<>>
    /\ action_table = EmptyMap
    /\ goto_table = EmptyMap
    /\ diagnostics = 0
    /\ tb_states = <<>>
    /\ tb_i = NoState
    /\ tb_items = <<>>
    /\ tb_nts = {}
    /\ n_tokens = 0
    /\ tokens = <<>>
    /\ parse = IdleParse
    /\ parses = 0
    /\ kept = <<>>
    /\ failed_since = FALSE
    /\ fn_call = NoCall
    /\ fn_ret = NoSet

NextFF == FirstVisit \/ FirstPassEnd \/ FollowVisit \/ FollowPassEnd

\* FirstAndFollow::new: first(), then follow(); it has returned at pc = "seed"
SpecFF == InitFF /\ [][NextFF]_vars

(***************************************************************************)
(* closure and go_to called directly, as the tests closure_01, closure_02  *)
(* and go_to_01 call them: on item sets of the grammar, with the FIRST     *)
(* sets FirstAndFollow::new computes for it.                               *)
(***************************************************************************)
\* every item of grammar g: a production of g or the seed production, a dot
\* position of its RHS, a terminal as lookahead
ItemsOf(g) ==
    UNION {{LR1Item(p, d, a) : d \in 0..Len(p.rhs), a \in terminals(g)} :
            p \in {seed_item(g).production}
                  \cup UNION {Range(g.productions[l]) : l \in DOMAIN g.productions}}

\* the item sets given to the functions first: those of at most MaxItems
\* items; the seed item is one, so the calls that follow reach the sets of the
\* canonical collection
ItemSets(g) == {Range(q) : q \in SeqsUpTo(ItemsOf(g), MaxItems)}

InitSets ==
    /\ grammar \in Grammars
    /\ db = grammar.symbol_db
    /\ db_call = [op |-> "new", label |-> ""]
    /\ db_panic = ""
    /\ registered = [k \in 1..grammar.symbol_db.next |-> grammar.symbol_db.to_label[k - 1]]
    /\ pc = "functions"
    /\ panic = ""
    /\ first = first_run(grammar, first_initial(grammar))
    /\ follow = EmptyMap
    /\ ff_done = TRUE
    /\ ff_todo = {}
    /\ cc = EmptyCC
    /\ cc_done = FALSE
    /\ work = <<>>
    /\ cur = NoSet
    /\ cur_items = <<>>
    /\ action_table = EmptyMap
    /\ goto_table = EmptyMap
    /\ diagnostics = 0
    /\ tb_states = <<>>
    /\ tb_i = NoState
    /\ tb_items = <<>>
    /\ tb_nts = {}
    /\ n_tokens = 0
    /\ tokens = <<>>
    /\ parse = IdleParse
    /\ parses = 0
    /\ kept = <<>>
    /\ failed_since = FALSE
    /\ fn_call \in {[op |-> "none", items |-> I, symbol |-> NoSymbol] : I \in ItemSets(grammar)}
    /\ fn_ret = NoSet

\* closure(first_and_follow, grammar, items), on the given set or on the set
\* the last call returned
ClosureCall ==
    /\ pc = "functions"
    /\ \E I \in {fn_call.items} \cup (IF fn_call.op = "none" THEN {} ELSE {fn_ret}) :
        /\ fn_call' = [op |-> "closure", items |-> I, symbol |-> NoSymbol]
        /\ fn_ret' = closure(first, grammar, I)
    /\ UNCHANGED <<dbvars, buildvars, ffvars, ccvars, tbvars, parsevars>>

\* go_to(first_and_follow, grammar, items, symbol), on the given set or on the
\* set the last call returned
GoToCall ==
    /\ pc = "functions"
    /\ \E I \in {fn_call.items} \cup (IF fn_call.op = "none" THEN {} ELSE {fn_ret}) :
       \E X \in Symbols(grammar) :
        /\ fn_call' = [op |-> "go_to", items |-> I, symbol |-> X]
        /\ fn_ret' = go_to(first, grammar, I, X)
    /\ UNCHANGED <<dbvars, buildvars, ffvars, ccvars, tbvars, parsevars>>

NextSets == ClosureCall \/ GoToCall

SpecSets == InitSets /\ [][NextSets]_vars

(***************************************************************************)
(* Parser::new with the loop of closure run pass by pass: each call of     *)
(* closure, from build() for the seed item and from go_to for an item of   *)
(* cc_i, is a sequence of passes over the growing set fn_ret.              *)
(***************************************************************************)
InitLoops ==
    /\ grammar \in Grammars \cup FFGrammars
    /\ db = grammar.symbol_db
    /\ db_call = [op |-> "new", label |-> ""]
    /\ db_panic = ""
    /\ registered = [k \in 1..grammar.symbol_db.next |-> grammar.symbol_db.to_label[k - 1]]
    /\ pc = "first"
    /\ panic = ""
    /\ first = first_initial(grammar)
    /\ follow = EmptyMap
    /\ ff_done = TRUE
    /\ ff_todo = nonterminals(grammar)
    /\ cc = EmptyCC
    /\ cc_done = FALSE
    /\ work = <<>>
    /\ cur = NoSet
    /\ cur_items = <<>>
    /\ action_table = EmptyMap
    /\ goto_table = EmptyMap
    /\ diagnostics = 0
    /\ tb_states = <<>>
    /\ tb_i = NoState
    /\ tb_items = <<>>
    /\ tb_nts = {}
    /\ n_tokens = 0
    /\ tokens = <<>>
    /\ parse = IdleParse
    /\ parses = 0
    /\ kept = <<>>
    /\ failed_since = FALSE
    /\ fn_call = NoCall
    /\ fn_ret = NoSet

\* build(): closure is called on the seed item
ClosureOfSeed ==
    /\ pc = "seed"
    /\ fn_call' = [op |-> "closure", items |-> {seed_item(grammar)}, symbol |-> NoSymbol]
    /\ fn_ret' = {seed_item(grammar)}
    /\ pc' = "closure"
    /\ UNCHANGED <<dbvars, grammar, panic, ffvars, ccvars, tbvars, parsevars>>

\* build(): one item of cc_i: nothing to do behind a completed item; else
\* go_to collects the advanced items and calls closure on them
GoToOfItem ==
    /\ pc = "cc"
    /\ cur_items # <<>>
    /\ LET unseen == symbols_after_dot(Head(cur_items))
       IN  IF unseen = <<>>
           THEN /\ cur_items' = Tail(cur_items)
                /\ UNCHANGED <<pc, fnvars>>
           ELSE /\ fn_call' = [op |-> "go_to", items |-> cur, symbol |-> unseen[1]]
                /\ fn_ret' = {LR1Item(item.production, item.dot_position + 1,
                                      item.lookahead) :
                                item \in {it \in cur :
                                            /\ symbols_after_dot(it) # <<>>
                                            /\ symbols_after_dot(it)[1] = unseen[1]}}
                /\ pc' = "closure"
                /\ UNCHANGED cur_items
    /\ UNCHANGED <<dbvars, grammar, panic, ffvars, cc, cc_done, work, cur, tbvars,
                   parsevars>>

\* build(): what follows go_to for the symbol x of an item of cc_i: temp is
\* added if it is new, and the transition is recorded
cc_record(c, done, cc_i, x, temp) ==
    LET fresh == ~contains(c, temp)
        a == IF fresh THEN cc_add(c, temp) ELSE [cc |-> c, panic |-> ""]
        t == IF a.panic # "" THEN a ELSE cc_add_transition(a.cc, cc_i, x, temp)
    IN  [cc |-> t.cc, done |-> done /\ ~fresh, panic |-> t.panic]

\* closure: one pass of its loop; when the pass adds nothing the set is
\* returned, to build() for cc0 or to the item of cc_i that go_to was called for
ClosurePass ==
    /\ pc = "closure"
    /\ LET updates == UNION {closure_updates(first, grammar, i) : i \in fn_ret}
       IN  IF ~(updates \subseteq fn_ret)
           THEN /\ fn_ret' = fn_ret \cup updates
                /\ UNCHANGED <<fn_call, pc, panic, ccvars>>
           ELSE IF fn_call.op = "closure"
           THEN LET a == cc_add(EmptyCC, fn_ret)
                IN  /\ cc' = a.cc
                    /\ panic' = a.panic
                    /\ pc' = IF a.panic # "" THEN "failed" ELSE "cc"
                    /\ cc_done' = FALSE
                    /\ fn_call' = NoCall
                    /\ fn_ret' = NoSet
                    /\ UNCHANGED <<work, cur, cur_items>>
           ELSE LET r == cc_record(cc, cc_done, cur, fn_call.symbol, fn_ret)
                IN  /\ cc' = r.cc
                    /\ cc_done' = r.done
                    /\ panic' = r.panic
                    /\ pc' = IF r.panic # "" THEN "failed" ELSE "cc"
                    /\ cur_items' = Tail(cur_items)
                    /\ fn_call' = NoCall
                    /\ fn_ret' = NoSet
                    /\ UNCHANGED <<work, cur>>
    /\ UNCHANGED <<dbvars, grammar, ffvars, tbvars, parsevars>>

NextLoops ==
    \/ FirstVisit \/ FirstPassEnd \/ FollowVisit \/ FollowPassEnd
    \/ ClosureOfSeed \/ CcPass \/ CcTakeSet \/ GoToOfItem \/ ClosurePass
    \/ TbTakeState \/ TbItem \/ TbGoto

\* Parser::new keeps running until it returns or panics
SpecLoops == InitLoops /\ [][NextLoops]_vars /\ WF_vars(NextLoops)

(***************************************************************************)
(* Parser::new and one call of Parser::parse on grammars whose right-hand  *)
(* sides are not checked by Grammar::new.  The node stack of a parse can   *)
(* grow without a token being read, so Reduce is explored up to MaxNodes   *)
(* nodes.                                                                  *)
(***************************************************************************)
GrammarsAnyRhs ==
    {GrammarParens, GrammarTail, GrammarEpsilonInside, GrammarEpsilonAhead}

InitAnyRhs ==
    /\ grammar \in GrammarsAnyRhs
    /\ db = grammar.symbol_db
    /\ db_call = [op |-> "new", label |-> ""]
    /\ db_panic = ""
    /\ registered = [k \in 1..grammar.symbol_db.next |-> grammar.symbol_db.to_label[k - 1]]
    /\ pc = "first"
    /\ panic = ""
    /\ first = first_initial(grammar)
    /\ follow = EmptyMap
    /\ ff_done = TRUE
    /\ ff_todo = nonterminals(grammar)
    /\ cc = EmptyCC
    /\ cc_done = FALSE
    /\ work = <<>>
    /\ cur = NoSet
    /\ cur_items = <<>>
    /\ action_table = EmptyMap
    /\ goto_table = EmptyMap
    /\ diagnostics = 0
    /\ tb_states = <<>>
    /\ tb_i = NoState
    /\ tb_items = <<>>
    /\ tb_nts = {}
    /\ n_tokens = 0
    /\ tokens = <<>>
    /\ parse = IdleParse
    /\ parses = 0
    /\ kept = <<>>
    /\ failed_since = FALSE
    /\ fn_call = NoCall
    /\ fn_ret = NoSet

\* the number of tree nodes in a sequence of trees
RECURSIVE Nodes(_)
Nodes(ts) ==
    IF ts = <<>> THEN 0
    ELSE 1 + Nodes(Head(ts).children) + Nodes(Tail(ts))

\* Parser::parse, Action::Reduce, while the node stack is below the bound
ParseReduceBounded ==
    /\ Nodes(parse.parse_stack) < MaxNodes
    /\ ParseReduce

NextAnyRhs ==
    \/ Build
    \/ ParseStart \/ ParseShift \/ ParseReduceBounded \/ ParseAccept \/ ParseNoAction

SpecAnyRhs == InitAnyRhs /\ [][NextAnyRhs]_vars

(***************************************************************************)
(* The language of a grammar, by derivation: the terminal strings of at    *)
(* most n symbols each nonterminal derives.  epsilon derives the empty     *)
(* string.                                                                 *)
(***************************************************************************)
RECURSIVE SeqLang(_, _, _, _)
SeqLang(g, L, rhs, n) ==
    IF rhs = <<>> THEN {<<>>}
    ELSE LET h == Head(rhs)
             hs == IF h = epsilon(g.symbol_db) THEN {<<>>}
                   ELSE IF is_terminal(g.symbol_db, h) THEN {<<h>>}
                   ELSE L[h]
             ts == SeqLang(g, L, Tail(rhs), n)
         IN  {a \o b : <<a, b>> \in {x \in hs \X ts : Len(x[1]) + Len(x[2]) <= n}}

RECURSIVE LangFix(_, _, _)
LangFix(g, L, n) ==
    LET L2 == [A \in nonterminals(g) |->
                  L[A] \cup UNION {SeqLang(g, L, productions(g, A)[k].rhs, n) :
                                      k \in DOMAIN productions(g, A)}]
    IN  IF L2 = L THEN L ELSE LangFix(g, L2, n)

\* the sentences w $ of each grammar, w in L(G), of at most MaxTokens tokens
Sentences ==
    [g \in Grammars |->
        LangFix(g, [A \in nonterminals(g) |-> {}], MaxTokens)[goal(g.symbol_db)]]

\* the tokens read so far agree with the vector whose symbols are v
ReadSoFarOf(v) ==
    /\ Len(v) = n_tokens
    /\ \A k \in 1..Len(tokens) : token_to_symbol(tokens[k]) = v[k]

\* the leaves of a tree (nodes with no children), left to right
RECURSIVE Leaves(_)
RECURSIVE LeavesOfAll(_)
Leaves(t) == IF t.children = <<>> THEN <<t>> ELSE LeavesOfAll(t.children)
LeavesOfAll(ts) == IF ts = <<>> THEN <<>> ELSE Leaves(Head(ts)) \o LeavesOfAll(Tail(ts))

LeafTokens(t) == [k \in DOMAIN Leaves(t) |-> Leaves(t)[k].token]

\* the tokens of the leaves that are labelled with a terminal
TerminalLeafTokens(g, t) ==
    LET ls == SelectSeq(Leaves(t), LAMBDA l : is_terminal(g.symbol_db, l.symbol))
    IN  [k \in DOMAIN ls |-> ls[k].token]

\* the call returned a tree and read the whole vector, which ends its w with $
AcceptedWhole ==
    /\ parse.status = "accepted"
    /\ parse.result # None
    /\ Len(tokens) = n_tokens

\* the tokens of w: all but the $ read last
InputWord == SubSeq(tokens, 1, Len(tokens) - 1)

\* the loops of parse_tables.rs build() have run to their end without a panic
TablesDone ==
    /\ pc = "tables"
    /\ tb_i # NoState
    /\ tb_states = <<>>
    /\ tb_items = <<>>
    /\ tb_nts = {}

\* a reduce item of the table synthesis: the dot at the end (and not the
\* target item), or epsilon after the dot
IsReduceItem(g, item) ==
    LET unseen == symbols_after_dot(item)
    IN  \/ (unseen = <<>> /\ ~is_target(item, g.symbol_db))
        \/ (unseen # <<>> /\ unseen[1] = epsilon(g.symbol_db))

\* an item that shifts on terminal t
IsShiftItem(g, item, t) ==
    LET unseen == symbols_after_dot(item)
    IN  /\ unseen # <<>>
        /\ unseen[1] = t
        /\ t # epsilon(g.symbol_db)
        /\ is_terminal(g.symbol_db, t)

\* state i holds two reduce items of distinct productions with one lookahead
ReduceReduceIn(g, c, i) ==
    \E x, y \in c.int_to_set[i] :
        /\ IsReduceItem(g, x) /\ IsReduceItem(g, y)
        /\ x.production # y.production
        /\ x.lookahead = y.lookahead

\* the cells (i, t) where state i holds a shift item on t and a reduce item
\* with lookahead t
ShiftReduceCells(g, c) ==
    {<<i, t>> \in (DOMAIN c.int_to_set) \X terminals(g) :
        /\ \E x \in c.int_to_set[i] : IsShiftItem(g, x, t)
        /\ \E y \in c.int_to_set[i] : IsReduceItem(g, y) /\ y.lookahead = t}

(***************************************************************************)
(* Claims                                                                  *)
(***************************************************************************)

\* C1 as claimed: for every grammar the generator accepts and every w in
\* L(G), parsing w $ reaches Accept and the leaves of the tree returned, left
\* to right, carry exactly the tokens of w.
C1_Original ==
    /\ AcceptedWhole
        => LeafTokens(parse.result[1]) = InputWord
    /\ parse.status = "error"
        => ~\E v \in Sentences[grammar] : ReadSoFarOf(v)

\* C1 amended: for every grammar built without a shift/reduce diagnostic and
\* every w in L(G), parsing w $ reaches Accept, and the leaves labelled with
\* a terminal, left to right, carry exactly the tokens of w.
C1_SentencesParse ==
    diagnostics = 0 =>
        /\ AcceptedWhole
            => TerminalLeafTokens(grammar, parse.result[1]) = InputWord
        /\ (parse.status = "error" \/ (parse.status = "accepted" /\ ~AcceptedWhole))
            => ~\E v \in Sentences[grammar] : ReadSoFarOf(v)

\* C1 witness: a sentence of five tokens of the grammar E1 -> ( E1 ) | epsilon
\* was accepted
C1_Witness ==
    /\ grammar = GrammarParens
    /\ AcceptedWhole
    /\ n_tokens = 5
    /\ \E v \in Sentences[grammar] : ReadSoFarOf(v)

\* C2 as claimed: a call whose vector still holds tokens after the $ on which
\* Accept fires ends in an error and returns no tree.
C2_TrailingTokensRejected ==
    ~(parse.status = "accepted" /\ parse.result # None /\ Len(tokens) < n_tokens)

\* C3: a tree is returned only when Accept is reached; a missing ACTION
\* entry, an empty vector and a vector that runs out before Accept each end
\* the call in an error with no tree.
C3_TreeOnlyOnAccept ==
    /\ [](parse.result # None => parse.status = "accepted")
    /\ [](parse.status = "error" => parse.result = None)
    /\ [][/\ (parse.status = "running" /\ Looked = None)
              => (parse'.status = "error" /\ parse'.result = None)
          /\ (parse.status = "idle" /\ parses' # parses /\ n_tokens' = 0)
              => (parse'.status = "error" /\ parse'.result = None)
          /\ (parse.status = "running" /\ Looked # None /\ Looked[1].kind = "Shift"
                /\ Len(tokens) = n_tokens)
              => (parse'.status = "error" /\ parse'.result = None)]_vars

\* C3 witness: a call ended on a missing ACTION entry after reading three tokens
C3_Witness ==
    /\ parse.status = "error"
    /\ parse.panic = "no entry in action table"
    /\ parse.result = None
    /\ Len(tokens) = 3

\* C4 as claimed: when a state of the collection holds two reduce items of
\* distinct productions with the same lookahead, table construction fails.
C4_ReduceReduceFatal ==
    TablesDone => ~\E i \in DOMAIN cc.int_to_set : ReduceReduceIn(grammar, cc, i)

\* C5 as claimed: for every cell (i, t) where state i holds a shift item on t
\* and a reduce item with lookahead t, table construction completes and
\* ACTION[i, t] ends as Shift(j), j the target of transition (i, t).
C5_Original ==
    (pc = "failed" \/ TablesDone) =>
        \A cell \in ShiftReduceCells(grammar, cc) :
            /\ pc # "failed"
            /\ cell \in DOMAIN action_table
            /\ action_table[cell] = Shift(cc.transitions[cell])

\* C5 amended: whenever table construction completes, for every such cell
\* ACTION[i, t] ends as Shift(j), j the target of transition (i, t),
\* whichever of the two items was visited first.
C5_ShiftWins ==
    TablesDone =>
        \A cell \in ShiftReduceCells(grammar, cc) :
            /\ cell \in DOMAIN cc.transitions
            /\ cell \in DOMAIN action_table
            /\ action_table[cell] = Shift(cc.transitions[cell])

\* C5 witness: construction completed for a grammar where the shift item of
\* such a cell is visited before its reduce items
C5_Witness ==
    /\ TablesDone
    /\ grammar = GrammarShiftFirst
    /\ ShiftReduceCells(grammar, cc) # {}

\* an if with no else of its own at the right edge of the tree t: S -> if S,
\* or S -> if S else S whose else branch ends with one
RECURSIVE OpenIf(_)
OpenIf(t) ==
    \/ Len(t.children) = 2
    \/ (Len(t.children) = 4 /\ OpenIf(t.children[4]))

\* every else of the tree t belongs to the nearest if before it that has none:
\* the then-branch of a node S -> if S else S leaves no if without its else
RECURSIVE NearestIf(_)
NearestIf(t) ==
    /\ Len(t.children) = 4 => ~OpenIf(t.children[2])
    /\ \A k \in DOMAIN t.children : NearestIf(t.children[k])

\* C6: the tables of the dangling-else grammar S -> if S | if S else S | a
\* are built, with exactly one shift/reduce diagnostic in the whole
\* construction, and the parser accepts the sentences of the grammar and
\* attaches each else to the nearest if that has none.
C6_DanglingElse ==
    grammar = GrammarElse =>
        /\ pc # "failed"
        /\ diagnostics <= 1
        /\ (TablesDone \/ pc = "built") => diagnostics = 1
        /\ AcceptedWhole => NearestIf(parse.result[1])
        /\ parse.status = "error" => ~\E v \in Sentences[grammar] : ReadSoFarOf(v)

\* C6 witness: if if a else a $ was accepted, the else attached to the inner if
C6_Witness ==
    /\ grammar = GrammarElse
    /\ AcceptedWhole
    /\ n_tokens = 6
    /\ Len(parse.result[1].children) = 2
    /\ Len(parse.result[1].children[2].children) = 4

\* C7: whatever the order in which the hash-based sets are iterated, the
\* construction yields the FIRST sets, the collection (item sets under their
\* state numbers, transitions), the ACTION and GOTO maps, the diagnostics and
\* the fatal conflicts of the construction that iterates them in ascending
\* order.
C7_BuildDeterministic ==
    /\ pc \in {"follow", "seed", "cc", "tables"} => first = Built[grammar].first
    /\ pc = "tables" => cc = Built[grammar].cc
    /\ (TablesDone \/ pc = "built") =>
        /\ action_table = Built[grammar].action_table
        /\ goto_table = Built[grammar].goto_table
        /\ diagnostics = Built[grammar].diagnostics
        /\ Built[grammar].panic = ""
    /\ pc = "failed" => panic = Built[grammar].panic

\* C7 witness: the construction ended for a grammar of four nonterminals
C7_Witness ==
    /\ TablesDone
    /\ Cardinality(nonterminals(grammar)) = 4
    /\ Cardinality(DOMAIN cc.int_to_set) > 8

\* the tokens of a call are those of the call kept, as far as they are read
SameInputAsKept ==
    /\ kept # None
    /\ n_tokens = kept[1].n_tokens
    /\ \A k \in 1..Len(tokens) :
          k <= Len(kept[1].tokens) /\ tokens[k] = kept[1].tokens[k]

\* C8: a step of Parser::parse, in a call that succeeds or fails, leaves the
\* Grammar and the tables as they are, and a call on the input of an earlier
\* call that returned a tree returns an equal tree, also after a failed call
\* in between.
C8_ParseLeavesParser ==
    /\ [][pc = "built" => /\ grammar' = grammar
                          /\ action_table' = action_table
                          /\ goto_table' = goto_table]_vars
    /\ []((parse.status \in {"accepted", "error"} /\ SameInputAsKept)
            => (parse.status = "accepted" /\ parse.result = kept[1].result))

\* C8 witness: the input of the first call was parsed again after a failed call
C8_Witness ==
    /\ parse.status = "accepted"
    /\ SameInputAsKept
    /\ failed_since
    /\ n_tokens >= 3
    /\ parse.result = kept[1].result

\* the symbols on the LHS and the RHS of the productions of g
GrammarSymbols(g) ==
    UNION {{g.productions[l][k].lhs} \cup Range(g.productions[l][k].rhs) :
              <<l, k>> \in {x \in (DOMAIN g.productions) \X (1..(MaxProductions + 1)) :
                              x[2] \in DOMAIN g.productions[x[1]]}}

\* C11 as claimed: every Grammar built by Grammar::new holds exactly one
\* production whose LHS is GOAL, and its RHS is [start_symbol, $].
C11_OneGoalProduction ==
    pc = "grammar" =>
        productions(grammar, goal(grammar.symbol_db)) =
            <<Production(goal(grammar.symbol_db),
                         <<grammar.start_symbol, eoi(grammar.symbol_db)>>)>>

\* C12 as claimed: Grammar::new on productions that use a symbol the table
\* does not hold fails, so every symbol on an LHS or RHS of a constructed
\* Grammar is registered in its table.
C12_SymbolsRegistered ==
    pc = "grammar" =>
        GrammarSymbols(grammar) \subseteq
            (grammar.symbol_db.terminals \cup grammar.symbol_db.non_terminals)

\* the symbols of the input ( ) ( ( ) ) $ of the list/pair grammar
PairsInput ==
    LET sym(l) == GrammarPairs.symbol_db.from_label[l]
    IN  <<sym("("), sym(")"), sym("("), sym("("), sym(")"), sym(")"), sym("$")>>

\* Parser::parse was called on ( ) ( ( ) ) $ with the list/pair grammar
ParsingPairsInput ==
    /\ grammar = GrammarPairs
    /\ pc = "built"
    /\ parse.status # "idle"
    /\ n_tokens = Len(PairsInput)
    /\ \A k \in 1..Len(tokens) : token_to_symbol(tokens[k]) = PairsInput[k]

\* the labels of the children of a node
ChildLabels(t) == [k \in DOMAIN t.children |-> t.children[k].symbol]

\* C13 as claimed: with List -> List Pair | Pair ; Pair -> ( Pair ) | ( ),
\* parsing ( ) ( ( ) ) $ accepts and returns a tree whose root is labelled List
\* and whose root has two Pair children.
C13_Original ==
    ParsingPairsInput =>
        /\ parse.status # "error"
        /\ parse.status = "accepted" =>
            /\ AcceptedWhole
            /\ parse.result[1].symbol = GrammarPairs.symbol_db.from_label["list"]
            /\ ChildLabels(parse.result[1]) =
                  <<GrammarPairs.symbol_db.from_label["pair"],
                    GrammarPairs.symbol_db.from_label["pair"]>>

\* C13 amended: parsing ( ) ( ( ) ) $ accepts and returns a tree whose root is
\* labelled List and has two children: a List whose only child is the Pair
\* ( ), and the Pair ( ( ) ).
C13_ListOfTwoPairs ==
    LET list == GrammarPairs.symbol_db.from_label["list"]
        pair == GrammarPairs.symbol_db.from_label["pair"]
    IN  ParsingPairsInput =>
            /\ parse.status # "error"
            /\ parse.status = "accepted" =>
                /\ AcceptedWhole
                /\ parse.result[1].symbol = list
                /\ ChildLabels(parse.result[1]) = <<list, pair>>
                /\ ChildLabels(parse.result[1].children[1]) = <<pair>>
                /\ LeafTokens(parse.result[1].children[1]) = SubSeq(tokens, 1, 2)
                /\ LeafTokens(parse.result[1].children[2]) = SubSeq(tokens, 3, 6)

\* C13 witness: the call on ( ) ( ( ) ) $ returned a tree
C13_Witness ==
    /\ ParsingPairsInput
    /\ AcceptedWhole
    /\ Len(parse.result[1].children) = 2

(***************************************************************************)
(* FIRST and FOLLOW by derivation: the sentential forms of at most n       *)
(* symbols derived from a seed, ε written as the empty string.             *)
(***************************************************************************)
WithoutEpsilon(g, rhs) == SelectSeq(rhs, LAMBDA x : x # epsilon(g.symbol_db))

\* one derivation step at any nonterminal of the form
Rewrites(g, form) ==
    {SubSeq(form, 1, ik[1] - 1)
        \o WithoutEpsilon(g, productions(g, form[ik[1]])[ik[2]].rhs)
        \o SubSeq(form, ik[1] + 1, Len(form)) :
        ik \in {x \in (DOMAIN form) \X (1..(MaxProductions + 1)) :
                   x[2] \in DOMAIN productions(g, form[x[1]])}}

RECURSIVE FormsFix(_, _, _)
FormsFix(g, S, n) ==
    LET S2 == S \cup {f \in UNION {Rewrites(g, f) : f \in S} : Len(f) <= n}
    IN  IF S2 = S THEN S ELSE FormsFix(g, S2, n)

\* the forms of at most MaxForm symbols suffice for the grammars of FFGrammars
MaxForm == MaxProductions * MaxRhs + 4

Forms(g, seed) == FormsFix(g, {seed}, MaxForm)

\* the terminals that begin a form derived from A, and ε iff A derives the
\* empty string
DerivedFirst(g, A) ==
    LET fs == Forms(g, <<A>>)
    IN  {f[1] : f \in {x \in fs : x # <<>> /\ is_terminal(g.symbol_db, x[1])}}
            \cup (IF <<>> \in fs THEN {epsilon(g.symbol_db)} ELSE {})

\* the forms derived from GOAL
GoalForms(g) == Forms(g, <<goal(g.symbol_db)>>)

\* the terminals directly after A in a form derived from GOAL
DerivedFollow(g, A) ==
    {fk[1][fk[2] + 1] :
        fk \in {x \in GoalForms(g) \X (1..MaxForm) :
                   /\ x[2] < Len(x[1])
                   /\ x[1][x[2]] = A
                   /\ is_terminal(g.symbol_db, x[1][x[2] + 1])}}

\* A occurs in a form derived from GOAL
Reachable(g, A) == \E f \in GoalForms(g) : A \in Range(f)

(***************************************************************************)
(* FIRST and FOLLOW as least fixed points of their rules, all rules        *)
(* applied at once to the sets of the round before.                        *)
(***************************************************************************)
\* FIRST of a sequence under the map F, ε in it iff every symbol is nullable
FirstOfSeq(g, F, rhs) ==
    LET eps == epsilon(g.symbol_db)
    IN  UNION {F[rhs[i]] \ {eps} :
                  i \in {x \in DOMAIN rhs : \A j \in 1..(x - 1) : eps \in F[rhs[j]]}}
            \cup (IF \A j \in DOMAIN rhs : eps \in F[rhs[j]] THEN {eps} ELSE {})

\* the productions of g as a set
AllProductions(g) == UNION {Range(g.productions[l]) : l \in DOMAIN g.productions}

RECURSIVE FirstFix(_, _)
FirstFix(g, F) ==
    LET F2 == [x \in DOMAIN F |->
                  IF is_terminal(g.symbol_db, x) THEN {x}
                  ELSE F[x] \cup UNION {FirstOfSeq(g, F, p.rhs) :
                                           p \in {q \in AllProductions(g) : q.lhs = x}}]
    IN  IF F2 = F THEN F ELSE FirstFix(g, F2)

LeastFirst(g) ==
    FirstFix(g, [x \in terminals(g) \cup nonterminals(g) |->
                    IF is_terminal(g.symbol_db, x) THEN {x} ELSE {}])

\* the FOLLOW rules: for A -> alpha B beta, FIRST(beta) without ε is in
\* FOLLOW(B), and FOLLOW(A) too when beta derives the empty string
RECURSIVE FollowFix(_, _, _)
FollowFix(g, F, W) ==
    LET eps == epsilon(g.symbol_db)
        from(p, i) ==
            LET beta == FirstOfSeq(g, F, SubSeq(p.rhs, i + 1, Len(p.rhs)))
            IN  (beta \ {eps}) \cup (IF eps \in beta THEN W[p.lhs] ELSE {})
        W2 == [B \in DOMAIN W |->
                  W[B] \cup UNION {from(pi[1], pi[2]) :
                      pi \in {x \in AllProductions(g) \X (1..MaxRhs) :
                                 x[2] \in DOMAIN x[1].rhs /\ x[1].rhs[x[2]] = B}}]
    IN  IF W2 = W THEN W ELSE FollowFix(g, F, W2)

LeastFollow(g) ==
    FollowFix(g, LeastFirst(g),
              [B \in nonterminals(g) |->
                  IF B = goal(g.symbol_db) THEN {eoi(g.symbol_db)} ELSE {}])

\* the FOLLOW rules with ε inside an RHS taken as follow() takes it, as a
\* terminal like any other: what follows position i of p is the first
\* terminal after it and the FIRST sets, without ε, of the nonterminals up to
\* it, the nullable nonterminals being passed over, and FOLLOW of the LHS
\* when only nullable nonterminals come after i
RECURSIVE FollowFixWithEpsilon(_, _, _)
FollowFixWithEpsilon(g, F, W) ==
    LET eps == epsilon(g.symbol_db)
        passed(x) == ~is_terminal(g.symbol_db, x) /\ eps \in F[x]
        from(p, i) ==
            LET js == {j \in (i + 1)..Len(p.rhs) :
                          \A k \in (i + 1)..(j - 1) : passed(p.rhs[k])}
            IN  UNION {IF is_terminal(g.symbol_db, p.rhs[j]) THEN {p.rhs[j]}
                       ELSE F[p.rhs[j]] \ {eps} : j \in js}
                    \cup (IF \A k \in (i + 1)..Len(p.rhs) : passed(p.rhs[k])
                          THEN W[p.lhs] ELSE {})
        W2 == [B \in DOMAIN W |->
                  W[B] \cup UNION {from(pi[1], pi[2]) :
                      pi \in {x \in AllProductions(g) \X (1..MaxRhs) :
                                 x[2] \in DOMAIN x[1].rhs /\ x[1].rhs[x[2]] = B}}]
    IN  IF W2 = W THEN W ELSE FollowFixWithEpsilon(g, F, W2)

LeastFollowWithEpsilon(g) ==
    FollowFixWithEpsilon(g, LeastFirst(g),
        [B \in nonterminals(g) |->
            IF B = goal(g.symbol_db) THEN {eoi(g.symbol_db)} ELSE {}])

\* ε stands in an RHS only as its one symbol
EpsilonOnlyAlone(g) ==
    \A p \in AllProductions(g) :
        epsilon(g.symbol_db) \in Range(p.rhs) => p.rhs = <<epsilon(g.symbol_db)>>

\* the LHS of every production occurs in a form derived from GOAL
ProductionsReachable(g) == \A p \in AllProductions(g) : Reachable(g, p.lhs)

\* FirstAndFollow::new has returned
FirstAndFollowDone == pc = "seed"

\* C14 as claimed: FIRST(t) = {t} for every terminal t; FIRST(A) is the set of
\* terminals that can begin a string derived from A, with ε iff A is
\* nullable; FOLLOW(A) is the set of terminals that can directly follow A in
\* a form derived from GOAL; both are the least fixed points of the FIRST and
\* FOLLOW rules, whatever the order in which the nonterminals are visited.
C14_Original ==
    FirstAndFollowDone =>
        /\ \A t \in terminals(grammar) : first[t] = {t}
        /\ \A A \in nonterminals(grammar) : first[A] = DerivedFirst(grammar, A)
        /\ \A A \in nonterminals(grammar) \ {goal(grammar.symbol_db)} :
              follow[A] = DerivedFollow(grammar, A)
        /\ first = LeastFirst(grammar)
        /\ follow = LeastFollow(grammar)

\* C14 amended: FIRST is as claimed, for every grammar and visiting order.
\* FOLLOW is the least fixed point of the FOLLOW rules taken over all
\* productions, those that GOAL does not reach included, with an ε inside a
\* longer RHS taken as a terminal like any other; it is the least fixed point
\* of the usual rules when ε stands only alone in an RHS, and then the set of
\* terminals that can follow A in a form derived from GOAL when GOAL reaches
\* every production.
C14_FirstFollowFixedPoints ==
    FirstAndFollowDone =>
        /\ \A t \in terminals(grammar) : first[t] = {t}
        /\ \A A \in nonterminals(grammar) : first[A] = DerivedFirst(grammar, A)
        /\ first = LeastFirst(grammar)
        /\ follow = LeastFollowWithEpsilon(grammar)
        /\ EpsilonOnlyAlone(grammar) => follow = LeastFollow(grammar)
        /\ (EpsilonOnlyAlone(grammar) /\ ProductionsReachable(grammar)) =>
              \A A \in nonterminals(grammar) \ {goal(grammar.symbol_db)} :
                  follow[A] = DerivedFollow(grammar, A)

\* C14 witness: FirstAndFollow::new returned for S -> A a ; A -> ε, with A
\* nullable and a in FOLLOW(A)
C14_Witness ==
    /\ FirstAndFollowDone
    /\ EpsilonOnlyAlone(grammar)
    /\ ProductionsReachable(grammar)
    /\ epsilon(FFDb) \in first[FFDb.from_label["A"]]
    /\ FFDb.from_label["a"] \in follow[FFDb.from_label["A"]]

\* C15 as claimed: the computed FOLLOW(GOAL) contains $, and ε is in the
\* computed FOLLOW(X) for no nonterminal X.
C15_FollowHasNoEpsilon ==
    FirstAndFollowDone =>
        /\ eoi(grammar.symbol_db) \in follow[goal(grammar.symbol_db)]
        /\ \A X \in nonterminals(grammar) : epsilon(grammar.symbol_db) \notin follow[X]

\* the ACTION cells that hold Accept
AcceptCells == {cell \in DOMAIN action_table : action_table[cell] = Accept}

\* C16 as claimed: in every table built without a fatal conflict exactly one
\* ACTION cell holds Accept, the cell (j, $) with j the target of transition
\* (0, start_symbol); and a successful parse takes the Accept action exactly
\* once, as its last step.
C16_AcceptOnce ==
    /\ [](pc = "built" =>
            /\ <<0, grammar.start_symbol>> \in DOMAIN goto_table
            /\ AcceptCells = {<<goto_table[<<0, grammar.start_symbol>>],
                                eoi(grammar.symbol_db)>>})
    /\ [][/\ parse'.status = "accepted" /\ parse.status # "accepted"
              => (parse.status = "running" /\ Looked = Some(Accept))
          /\ (parse.status = "running" /\ Looked = Some(Accept))
              => parse'.status = "accepted"
          /\ parse.status = "accepted" => parse' = parse]_vars

\* the parser is about to reduce by an epsilon production A -> [epsilon]
ReducingByEpsilon ==
    /\ parse.status = "running"
    /\ Looked # None
    /\ Looked[1].kind = "Reduce"
    /\ Looked[1].production.rhs = <<epsilon(grammar.symbol_db)>>

\* C17: a Reduce by an epsilon production A -> [epsilon] pops no state and no
\* node: every entry of the state stack and of the node stack stays in place,
\* one node labelled A with zero children is pushed, one state GOTO[top, A] is
\* pushed, and the token cursor does not move.
C17_EpsilonReducePopsNothing ==
    [][ReducingByEpsilon =>
        LET A == Looked[1].production.lhs
        IN  /\ parse'.status = "running"
            /\ <<Top, A>> \in DOMAIN goto_table
            /\ parse'.state_stack = Append(parse.state_stack, goto_table[<<Top, A>>])
            /\ Len(parse'.parse_stack) = Len(parse.parse_stack) + 1
            /\ SubSeq(parse'.parse_stack, 1, Len(parse.parse_stack)) = parse.parse_stack
            /\ parse'.parse_stack[Len(parse'.parse_stack)].symbol = A
            /\ parse'.parse_stack[Len(parse'.parse_stack)].children = <<>>
            /\ parse'.token = parse.token
            /\ parse'.symbol = parse.symbol
            /\ tokens' = tokens
            /\ n_tokens' = n_tokens]_vars

\* an epsilon reduce has just pushed its childless node and its state on stacks
\* that already held a shifted token
C17_Witness ==
    /\ parse.status = "running"
    /\ Len(parse.parse_stack) >= 2
    /\ Len(parse.state_stack) = Len(parse.parse_stack) + 1
    /\ LET t == parse.parse_stack[Len(parse.parse_stack)]
       IN  /\ ~is_terminal(grammar.symbol_db, t.symbol)
           /\ t.children = <<>>
           /\ [lhs |-> t.symbol, rhs |-> <<epsilon(grammar.symbol_db)>>]
                \in Range(grammar.productions[t.symbol])
           /\ <<parse.state_stack[Len(parse.state_stack) - 1], t.symbol>>
                \in DOMAIN goto_table
           /\ Top = goto_table[<<parse.state_stack[Len(parse.state_stack) - 1], t.symbol>>]
    /\ is_terminal(grammar.symbol_db, parse.parse_stack[Len(parse.parse_stack) - 1].symbol)

\* the items of I that have X directly after the dot, each with its dot
\* advanced by one and its production and lookahead unchanged
Advanced(I, X) ==
    {[production |-> i.production, dot_position |-> i.dot_position + 1,
      lookahead |-> i.lookahead] :
        i \in {j \in I : /\ j.dot_position < Len(j.production.rhs)
                         /\ j.production.rhs[j.dot_position + 1] = X}}

\* C18: for every item set I and symbol X, go_to(I, X) equals closure of the
\* set of items of I that have X directly after the dot, each with its dot
\* advanced by one and its production and lookahead unchanged.
C18_GoToIsClosureOfAdvanced ==
    fn_call.op = "go_to" =>
        fn_ret = closure(first, grammar, Advanced(fn_call.items, fn_call.symbol))

\* go_to has advanced some items of I, left others behind, and closure has
\* added items to the advanced ones
C18_Witness ==
    /\ fn_call.op = "go_to"
    /\ Advanced(fn_call.items, fn_call.symbol) # {}
    /\ Cardinality(Advanced(fn_call.items, fn_call.symbol)) < Cardinality(fn_call.items)
    /\ fn_ret # Advanced(fn_call.items, fn_call.symbol)

\* C19: closure is extensive, idempotent and monotone: I is a subset of
\* closure(I), closure(closure(I)) = closure(I), and for every closed set J
\* and every item i of J, closure({i}) is a subset of J.
C19_ClosureLaws ==
    fn_call.op = "closure" =>
        /\ fn_call.items \subseteq fn_ret
        /\ closure(first, grammar, fn_ret) = fn_ret
        /\ \A i \in fn_ret : closure(first, grammar, {i}) \subseteq fn_ret

\* closure has returned a set larger than the one it was given, and some item
\* of it has a closure of its own with more than that item
C19_Witness ==
    /\ fn_call.op = "closure"
    /\ fn_call.items # {}
    /\ fn_ret # fn_call.items
    /\ \E i \in fn_ret \ fn_call.items : closure(first, grammar, {i}) # {i}

\* an item is well formed in grammar g
WellFormedItem(g, i) ==
    /\ i.dot_position \in 0..Len(i.production.rhs)
    /\ i.lookahead \in terminals(g) \ {epsilon(g.symbol_db)}

\* C20: every item of every state of the canonical collection is well formed:
\* its dot position lies in [0, |rhs|] and its lookahead is a terminal other
\* than epsilon.
C20_ItemsWellFormed ==
    \A n \in DOMAIN cc.int_to_set :
        \A i \in cc.int_to_set[n] : WellFormedItem(grammar, i)

\* the collection is complete, and a state of it holds an item that closure
\* added behind a nonterminal followed by a nullable nonterminal
C20_Witness ==
    /\ pc = "tables"
    /\ \E n \in DOMAIN cc.int_to_set :
       \E i \in cc.int_to_set[n] :
        /\ i.dot_position + 2 <= Len(i.production.rhs)
        /\ ~is_terminal(grammar.symbol_db, i.production.rhs[i.dot_position + 1])
        /\ epsilon(grammar.symbol_db) \in first[i.production.rhs[i.dot_position + 2]]
        /\ \E j \in cc.int_to_set[n] :
            /\ j.production.lhs = i.production.rhs[i.dot_position + 1]
            /\ j.dot_position = 0

\* the collection is finished: canonical_collection.rs build() has returned it
\* and parse_tables.rs build() reads it
CollectionDone == pc = "tables"

\* the state numbers a path of recorded transitions of c leads to from the
\* numbers of R
RECURSIVE ReachFix(_, _)
ReachFix(c, R) ==
    LET more == R \cup {c.transitions[k] : k \in {x \in DOMAIN c.transitions : x[1] \in R}}
    IN  IF more = R THEN R ELSE ReachFix(c, more)

\* C21: in the finished canonical collection every state number is reachable
\* from state 0 by a path of recorded transitions.
C21_StatesReachable ==
    CollectionDone => DOMAIN cc.int_to_set \subseteq ReachFix(cc, {0})

\* a finished collection with a state that only a path of two or more
\* transitions reaches
C21_Witness ==
    /\ CollectionDone
    /\ \E n \in DOMAIN cc.int_to_set :
        /\ n # 0
        /\ n \in ReachFix(cc, {0})
        /\ \A k \in DOMAIN cc.transitions : k[1] = 0 => cc.transitions[k] # n

\* the symbols after the dot of item i, read from its fields
Suffix(i) == [k \in 1..(Len(i.production.rhs) - i.dot_position) |->
                i.production.rhs[i.dot_position + k]]

\* the ACTION cell key is justified by the collection
JustifiedAction(key) ==
    LET i == key[1]
        t == key[2]
        e == action_table[key]
        eps == epsilon(grammar.symbol_db)
    IN  /\ i \in DOMAIN cc.int_to_set
        /\ t \in terminals(grammar) \ {eps}
        /\ e.kind = "Shift" =>
            /\ key \in DOMAIN cc.transitions
            /\ cc.transitions[key] = e.state
            /\ \E it \in cc.int_to_set[i] : Suffix(it) # <<>> /\ Suffix(it)[1] = t
        /\ e.kind = "Reduce" =>
            \E it \in cc.int_to_set[i] :
                /\ it.production = e.production
                /\ it.lookahead = t
                /\ (Suffix(it) = <<>> \/ Suffix(it)[1] = eps)

\* the transitions of the collection on a nonterminal
NonterminalTransitions ==
    {k \in DOMAIN cc.transitions : k[2] \in nonterminals(grammar)}

\* C22: every table entry is justified by the collection: ACTION is keyed only
\* by (state, terminal other than epsilon); ACTION[i, t] = Shift(j) implies
\* transition (i, t) -> j and an item of state i with t after the dot;
\* ACTION[i, a] = Reduce(p) implies an item of p in state i with lookahead a
\* whose suffix is empty or starts with epsilon; and GOTO[i, N] = j holds
\* exactly when N is a nonterminal with transition (i, N) -> j.
C22_EntriesJustified ==
    /\ pc = "tables" =>
        /\ \A key \in DOMAIN action_table : JustifiedAction(key)
        /\ \A key \in DOMAIN goto_table :
            /\ key \in NonterminalTransitions
            /\ goto_table[key] = cc.transitions[key]
    /\ TablesDone => DOMAIN goto_table = NonterminalTransitions

\* finished tables that hold a Shift, a Reduce by an epsilon item, a Reduce by
\* a completed item and a GOTO entry
C22_Witness ==
    /\ TablesDone
    /\ DOMAIN goto_table # {}
    /\ \E key \in DOMAIN action_table : action_table[key].kind = "Shift"
    /\ \E key \in DOMAIN action_table :
        /\ action_table[key].kind = "Reduce"
        /\ action_table[key].production.rhs = <<epsilon(grammar.symbol_db)>>
        /\ \E it \in cc.int_to_set[key[1]] :
            it.production = action_table[key].production /\ it.dot_position = 0
    /\ \E key \in DOMAIN action_table :
        /\ action_table[key].kind = "Reduce"
        /\ epsilon(grammar.symbol_db) \notin Range(action_table[key].production.rhs)

\* the messages of the internal consistency fatals of the construction
ConsistencyFatals ==
    {"something went terribly wrong while building parse tables",
     "set is already in CC", "[from] not in CC", "[to] not in CC",
     "attempting to alter an existing transition",
     "attempt to replace an existing entry in goto table"}

\* parse_tables.rs build() is about to add a Shift to a cell that holds a Shift
\* with another target
ShiftShiftClash ==
    /\ pc = "tables"
    /\ tb_items # <<>>
    /\ LET unseen == symbols_after_dot(Head(tb_items))
       IN  /\ unseen # <<>>
           /\ <<tb_i, unseen[1]>> \in DOMAIN cc.transitions
           /\ <<tb_i, unseen[1]>> \in DOMAIN action_table
           /\ action_table[<<tb_i, unseen[1]>>].kind = "Shift"
           /\ action_table[<<tb_i, unseen[1]>>].state # cc.transitions[<<tb_i, unseen[1]>>]

\* C27: for every grammar, none of the internal consistency fatals fires during
\* construction: the 'programmer-error' branch of table synthesis, a
\* Shift/Shift clash with different targets, adding an item set already
\* present in the collection, recording a transition that contradicts an
\* existing one, and a GOTO cell collision are all unreachable.
C27_NoConsistencyFatal ==
    /\ panic \notin ConsistencyFatals
    /\ ~ShiftShiftClash

\* the tables are finished without a fatal although a state holds two items
\* that shift on one terminal and a go_to set was found again in the collection
C27_Witness ==
    /\ TablesDone
    /\ panic = ""
    /\ \E i \in DOMAIN cc.int_to_set :
       \E x, y \in cc.int_to_set[i] :
        /\ x # y
        /\ IsShiftItem(grammar, x, symbols_after_dot(x)[1])
        /\ IsShiftItem(grammar, y, symbols_after_dot(x)[1])
        /\ action_table[<<i, symbols_after_dot(x)[1]>>].kind = "Shift"
    /\ \E k1, k2 \in DOMAIN cc.transitions :
        k1 # k2 /\ cc.transitions[k1] = cc.transitions[k2]
    /\ DOMAIN goto_table # {}

\* C23: when the collection build stops, the queue of unprocessed sets is empty
\* and, for every state i and every item of state i with a non-empty suffix
\* whose first symbol is X, the transition (i, X) is recorded and its target is
\* the state whose item set equals go_to(CC_i, X).
C23_CollectionComplete ==
    CollectionDone =>
        /\ cc.unprocessed = <<>>
        /\ \A i \in DOMAIN cc.int_to_set :
           \A it \in cc.int_to_set[i] :
            Suffix(it) # <<>> =>
                /\ <<i, Suffix(it)[1]>> \in DOMAIN cc.transitions
                /\ cc.transitions[<<i, Suffix(it)[1]>>] \in DOMAIN cc.int_to_set
                /\ cc.int_to_set[cc.transitions[<<i, Suffix(it)[1]>>]]
                     = go_to(first, grammar, cc.int_to_set[i], Suffix(it)[1])

\* the build has stopped after more than one pass: a state found in a later
\* pass has a transition of its own to a state found after it
C23_Witness ==
    /\ CollectionDone
    /\ \E k \in DOMAIN cc.transitions :
        /\ k[1] # 0
        /\ cc.transitions[k] > k[1]
        /\ \E it \in cc.int_to_set[k[1]] : Suffix(it) # <<>> /\ Suffix(it)[1] = k[2]

\* the two maps of collection c are inverse bijections on 0 .. next_number - 1
InverseBijections(c) ==
    /\ DOMAIN c.int_to_set = 0..(c.next_number - 1)
    /\ DOMAIN c.set_to_int = {c.int_to_set[n] : n \in DOMAIN c.int_to_set}
    /\ \A n \in DOMAIN c.int_to_set : c.set_to_int[c.int_to_set[n]] = n
    /\ \A m, n \in DOMAIN c.int_to_set : c.int_to_set[m] = c.int_to_set[n] => m = n

\* a step of the collection build keeps every number given so far and gives
\* a set it adds the next number
NumberingStep ==
    pc \in {"seed", "cc"} =>
        /\ \A set \in DOMAIN cc.set_to_int :
            /\ set \in DOMAIN cc'.set_to_int
            /\ cc'.set_to_int[set] = cc.set_to_int[set]
        /\ \A set \in DOMAIN cc'.set_to_int \ DOMAIN cc.set_to_int :
            /\ cc'.set_to_int[set] = cc.next_number
            /\ cc'.next_number = cc.next_number + 1
            /\ DOMAIN cc'.set_to_int = DOMAIN cc.set_to_int \cup {set}
        /\ (DOMAIN cc'.set_to_int = DOMAIN cc.set_to_int
                => cc'.next_number = cc.next_number)

\* C24: at every step of the collection build the number-to-set map and the
\* set-to-number map are inverse bijections whose numbers are exactly
\* 0 .. next_number - 1, numbers are given in order of discovery, and a number
\* once given to an item set never changes.
C24_NumberingStable ==
    /\ [](pc \in {"seed", "cc", "tables"} => InverseBijections(cc))
    /\ [][NumberingStep]_vars

\* the build is in the middle of a set and has numbered three sets or more
C24_Witness ==
    /\ pc = "cc"
    /\ cur_items # <<>>
    /\ cc.next_number >= 3
    /\ cc.unprocessed # <<>>
    /\ cur \in DOMAIN cc.set_to_int
    /\ cc.set_to_int[cur] > 0

\* C28: one augmented-production form is used throughout: the production of
\* every item with LHS GOAL in the canonical collection, in particular the
\* seed item of state 0, is the GOAL production stored in the Grammar.
C28_OneAugmentedForm ==
    \A n \in DOMAIN cc.int_to_set :
        \A it \in cc.int_to_set[n] :
            it.production.lhs = goal(grammar.symbol_db)
                => it.production \in Range(productions(grammar, goal(grammar.symbol_db)))

\* a step of a running loop loses no element of a FIRST set, of a FOLLOW set,
\* of the set closure is building or of the set of states
LoopsOnlyGrow ==
    /\ pc = "first" =>
        \A x \in DOMAIN first : x \in DOMAIN first' /\ first[x] \subseteq first'[x]
    /\ pc = "follow" =>
        \A x \in DOMAIN follow : x \in DOMAIN follow' /\ follow[x] \subseteq follow'[x]
    /\ (pc = "closure" /\ pc' = "closure") => fn_ret \subseteq fn_ret'
    /\ pc \in {"closure", "cc"} =>
        /\ DOMAIN cc.set_to_int \subseteq DOMAIN cc'.set_to_int
        /\ DOMAIN cc.int_to_set \subseteq DOMAIN cc'.int_to_set

\* C25: for every finite grammar the fixed-point loops of table construction
\* (FIRST, FOLLOW, closure, and the collection worklist) terminate, and while
\* they run every FIRST set, FOLLOW set, closure set and the set of states
\* only grows, never loses an element.
C25_LoopsTerminate ==
    /\ <>(pc \in {"tables", "failed"})
    /\ [][LoopsOnlyGrow]_vars

\* the loops have all ended, after a FIRST set, a FOLLOW set, a closure and
\* the collection each grew: the collection is finished with several states,
\* one of them larger than its kernel
C25_Witness ==
    /\ CollectionDone
    /\ cc.next_number >= 3
    /\ \E x \in nonterminals(grammar) : Cardinality(first[x]) >= 2
    /\ \E x \in nonterminals(grammar) \ {goal(grammar.symbol_db)} : follow[x] # {}
    /\ \E n \in DOMAIN cc.int_to_set : n # 0 /\
         \E it \in cc.int_to_set[n] : it.dot_position = 0

\* a Reduce step of Parser::parse that leaves the driver where it was: the
\* state stack and the lookahead after it are those before it.  The driver
\* chooses its action from the top state and the lookahead alone, so it takes
\* the same Reduce again, for ever, and only the node stack changes
ReduceComesBack ==
    /\ parse.status = "running"
    /\ parse'.status = "running"
    /\ parse'.parse_stack # parse.parse_stack
    /\ parse'.state_stack = parse.state_stack
    /\ parse'.token = parse.token
    /\ parse'.symbol = parse.symbol
    /\ tokens' = tokens

NoReduceComesBack == ~ReduceComesBack

\* C26: for every grammar the generator accepts and every finite token
\* sequence, the parse loop terminates, by Accept or by an error: there is no
\* infinite run of Reduce steps that consumes no token.  In particular no
\* Reduce step brings the driver back to the state stack and lookahead it
\* started from.
C26_NoReduceLoop == [][NoReduceComesBack]_vars

\* the driver is about to take Accept: the cell of its top state and its
\* lookahead holds Accept
AcceptFires ==
    /\ parse.status = "running"
    /\ Looked # None
    /\ Looked[1].kind = "Accept"

\* C29: in every parse with generator-built tables, before each action the
\* state stack is exactly one longer than the node stack and its bottom entry
\* is state 0; so when Accept fires the node stack holds exactly one tree, and
\* its root is labelled with the start symbol.
C29_StacksInStep ==
    /\ parse.status = "running" =>
        /\ Len(parse.state_stack) = Len(parse.parse_stack) + 1
        /\ parse.state_stack[1] = 0
    /\ AcceptFires =>
        /\ Len(parse.parse_stack) = 1
        /\ parse.parse_stack[1].symbol = grammar.start_symbol

\* the driver is about to take Reduce: the cell of its top state and its
\* lookahead holds a Reduce
ReduceFires ==
    /\ parse.status = "running"
    /\ Looked # None
    /\ Looked[1].kind = "Reduce"

\* the Reduce about to be taken finds its k nodes, its k states above the
\* bottom state, and the GOTO entry of the state it exposes
ReduceFindsAll ==
    LET p == Looked[1].production
        k == Len(effective_rhs(grammar, p))
        n == Len(parse.state_stack)
    IN  /\ k <= Len(parse.parse_stack)
        /\ k < n
        /\ transition(goto_table, parse.state_stack[n - k], p.lhs) # None

\* C30: in every parse with tables built by this generator, each Reduce(p)
\* taken finds at least k nodes and k states above the bottom state to pop
\* (k = |p.rhs| without epsilon) and finds GOTO[s', p.lhs] for the exposed
\* state s': stack underflow and a missing GOTO entry are unreachable for every
\* grammar the generator accepts and every token sequence.
C30_ReduceNeverFails == ReduceFires => ReduceFindsAll

\* C9: the terminal and nonterminal sets are disjoint and cover the
\* registered symbols, ids are 0 .. next-1 in registration order with GOAL, $
\* and epsilon first, and labels and symbols correspond one to one.
C9_SymbolDbInvariant ==
    /\ db.terminals \cap db.non_terminals = {}
    /\ db.terminals \cup db.non_terminals = 0..(db.next - 1)
    /\ DOMAIN db.to_label = 0..(db.next - 1)
    /\ DOMAIN db.from_label = Range(registered)
    /\ Len(registered) = db.next
    /\ SubSeq(registered, 1, 3) = <<"GOAL", "$", "ε">>
    /\ \A k \in 1..Len(registered) :
        /\ db.to_label[k - 1] = registered[k]
        /\ db.from_label[registered[k]] = k - 1
    /\ goal(db) \in db.non_terminals
    /\ eoi(db) \in db.terminals
    /\ epsilon(db) \in db.terminals

\* C9 witness: a terminal and a nonterminal were registered after the
\* reserved symbols
C9_Witness ==
    /\ pc = "db"
    /\ \E s \in db.terminals : s >= 3
    /\ \E s \in db.non_terminals : s >= 3

\* C10: a registration of a label that is already registered, the reserved
\* labels included, fails and leaves the table as it was.
C10_DuplicateLabelFails ==
    [][(pc = "db" /\ db_call'.label \in DOMAIN db.from_label)
         => (db_panic' # "" /\ db' = db)]_vars

\* C10 witness: the registration of the reserved label $ failed after user
\* symbols were registered
C10_Witness ==
    /\ pc = "db"
    /\ db_panic # ""
    /\ db_call.label = "$"
    /\ db.next > 3

====
